---- MODULE Spec2Model ----
(***************************************************************************)
(* Verification model of commonswiki-bulk-downloader (package cwbd):       *)
(*   - the checkpoint store     (download_utils.load_position /            *)
(*                               save_position)                            *)
(*   - the resumable dump scan  (scanner.scan_commons_db)                  *)
(*   - the download engine      (download.download_file and the pool of    *)
(*                               download.download_media_files)            *)
(*   - the rate limiter         (rateLimiter.AdaptiveRateLimiter)          *)
(*   - the file index           (main.retrace and main.update_found_files) *)
(*   - the command line and the scan phases (cli.get_cli_input,            *)
(*                               main.main, main.find_media_file_titles)   *)
(* Each subsystem has its own specifications (SpecCkpt; SpecScan; SpecDl,  *)
(* SpecDlRuns, SpecDlCats; SpecRl, SpecRlLive; SpecIx; SpecMain) over the  *)
(* shared variables; a subsystem's actions leave the variables of the      *)
(* other subsystems unchanged.                                             *)
(***************************************************************************)
EXTENDS Integers, Sequences, FiniteSets, TLC

\* ------------------------------------------------------------------ bounds
MaxCkptLines == 2     \* lines of an arbitrary checkpoint file (SpecCkpt)
MaxPos == 2           \* positions stored in / saved to an arbitrary file
MaxLines == 3         \* lines of a dump (SpecScan)
MaxMatches == 2       \* accepted matches on one line
MaxQuota == 2         \* largest match quota
MaxInterrupts == 1    \* interruptions (exception or kill) over all scans
BufCap == 2           \* records the output buffer holds before it writes through
save_interval == 2    \* pctx.save_interval (100 in context.py), scaled to the dumps
MaxFiles == 3         \* entries of a category's file list (SpecDl)
max_workers == 2      \* pctx.max_workers, the size of the pool
total == 2            \* the batch cap (100 in download.py), scaled to the lists
MaxRuns == 2          \* download runs (processes) one after the other
MaxCallers == 2       \* threads that call the rate limiter (SpecRl)
MaxSuccessCalls == 6  \* success() calls in a row that must reach base
MaxRows == 3          \* rows of the categorylinks output (SpecIx)
MaxMerges == 2        \* update_found_files calls over the fetch runs
MaxCats == 2          \* requested categories of the index (SpecDlCats)

VARIABLES
  ckpt,        \* the checkpoint file pctx.progress_scanner
  call         \* the last load_position / save_position call and its outcome

ckptVars == <<ckpt, call>>

VARIABLES
  dump,               \* the lines of the dump (infile), fixed over all scans
  max_phase_matches,  \* pctx.max_phase_matches, the match quota (0: none)
  outfile,            \* the match records of the output file that are on disk
  outbuf,             \* records written to outf and still in its buffer
  pc,                 \* position of the scanning process in scan_commons_db
  lc,                 \* the line counter
  start,              \* the progress position loaded on entry
  end,                \* the size position loaded on entry
  found_matches,      \* lines of the output file on entry plus matches since
  mi,                 \* index of the match of line lc being written
  nread,              \* lines read from the dump by this invocation
  outfile0,           \* the output file as it was on entry
  stop,               \* how the last invocation returned
  hist                \* interruptions so far: their number, and whether all
                      \* were raised between two lines (not a kill)

scanVars == <<dump, max_phase_matches, outfile, outbuf, pc, lc, start, end,
              found_matches, mi, nread, outfile0, stop, hist>>

VARIABLES
  files,                 \* the file list of the category in the index
  server,                \* per filename, the answers of the server, in order
  downloads_set,         \* ctx.downloads_set
  failed_downloads_set,  \* ctx.failed_downloads_set
  downloaded_files,      \* the persisted downloaded list
  invalid_files,         \* the persisted failed list
  tracker_current,       \* tracker._current, the category's progress counter
  log_queue,             \* log_writer: (category, n) items for safe_pos_thread
  dl_queue,              \* dl_writer: filenames for writer_thread
  pending,               \* indices of the slice not yet taken by a worker
  wpc,                   \* per worker, its position in download_file
  wfile,                 \* per worker, the file_title of its call
  wtmp,                  \* per worker, the value read for tracker._current += 1
  wlast,                 \* per worker, how its last call ended
  attempts,              \* per filename, the requests issued for it
  phase,                 \* position of download_media_files
  run,                   \* number of the download run (process) under way
  cat_start,             \* start, the cursor loaded at line 175
  cat                    \* number of the category the loop of line 157 is at

dlVars == <<files, server, downloads_set, failed_downloads_set, downloaded_files,
            invalid_files, tracker_current, log_queue, dl_queue, pending, wpc,
            wfile, wtmp, wlast, attempts, phase, run, cat_start, cat>>

VARIABLES
  base,      \* AdaptiveRateLimiter.base
  max,       \* AdaptiveRateLimiter.max
  factor,    \* AdaptiveRateLimiter.factor
  delay,     \* AdaptiveRateLimiter._delay
  sleeping,  \* AdaptiveRateLimiter._sleeping
  pause,     \* AdaptiveRateLimiter._pause: TRUE when the event is set
  rpc,       \* per caller, its position in wait / success / backoff
  rhint,     \* per caller, the retry_after argument of its backoff call
  rlast      \* how the call that returned last ended

rlVars == <<base, max, factor, delay, sleeping, pause, rpc, rhint, rlast>>

VARIABLES
  lt_out,             \* the linktarget output file: rows <<id, title>>
  page_out,           \* the page output file: rows <<id, title>>
  cl_out,             \* the categorylinks output file: rows <<id, target id>>
  found_files,        \* the persisted index (pctx.found_files, JSON)
  ordered_downloads,  \* the dictionary returned by the last retrace
  ipc,                \* position of the fetch command
  merges              \* update_found_files calls so far

ixVars == <<lt_out, page_out, cl_out, found_files, ordered_downloads, ipc,
            merges>>

VARIABLES
  command,      \* args.command
  present,      \* the paths of the command line that exist
  dumps,        \* per dump, its lines (one row a line)
  rsearch,      \* pctx.rsearch
  pfiles,       \* the keys of ProgramContext.pfiles, in insertion order
  program_set,  \* pctx.program_set
  mpc,          \* position of main()
  phase_k,      \* the item of program_files the loop of line 50 is at
  nlines,       \* lines the scan under way has read
  exit_code,    \* exit status of the process (NoExit while it runs)
  worked        \* the scans and download runs started so far

mnVars == <<command, present, dumps, rsearch, pfiles, program_set, mpc, phase_k,
            nlines, exit_code, worked>>

\* ------------------------------------------------- checkpoint file as text
\* A line of the checkpoint file, by what the two parsers can tell apart:
\*   "text"   a line without '=' (the signature written by reset_scanner, or
\*            a corrupt line); key holds the text
\*   "entry"  'key=value' with an integer value; pad = TRUE when the line
\*            carries blanks around key or value (strip() removes them)
\*   "badval" 'key=value' whose value is not an integer
TextLine(s) == [kind |-> "text", key |-> s, val |-> 0, pad |-> FALSE]
EntryLine(k, v) == [kind |-> "entry", key |-> k, val |-> v, pad |-> FALSE]
PaddedEntryLine(k, v) == [kind |-> "entry", key |-> k, val |-> v, pad |-> TRUE]
BadValLine(k) == [kind |-> "badval", key |-> k, val |-> 0, pad |-> FALSE]

\* The file: whether it exists (os.path.exists / open succeeding) and its lines.
MissingFile == [exists |-> FALSE, lines |-> <<>>]
FileOf(ls) == [exists |-> TRUE, lines |-> ls]

\* fformat(key, value, sep='=', newline=True): the canonical entry line.
fformat(key, value) == EntryLine(key, value)

\* Progress keys: fformat(infile, handler.__name__, save_interval, sep=':'),
\* fformat(infile, 'size', sep=':') and fformat('download', cat, 'size', sep=':').
formatted_prog_str == "dump:handler:interval"
formatted_size_str == "dump:size"
download_cat_key == "download:cat:size"
download_cat2_key == "download:cat2:size"
Keys == {formatted_prog_str, formatted_size_str, download_cat_key}

\* ------------------------------------------------------------ load_position
\* The loop of load_position over the lines after the signature: the first
\* line whose stripped key equals dump_file decides; a line without '=' raises
\* at the unpacking, a non-integer value raises at int() when its key matches;
\* the bare except turns both into 0.
RECURSIVE LoadFrom(_, _, _)
LoadFrom(lines, i, dump_file) ==
  IF i > Len(lines) THEN 0
  ELSE IF lines[i].kind = "text" THEN 0
  ELSE IF lines[i].key = dump_file
       THEN IF lines[i].kind = "entry" THEN lines[i].val ELSE 0
  ELSE LoadFrom(lines, i + 1, dump_file)

load_position(scanner_file, dump_file) ==
  IF ~scanner_file.exists THEN 0
  ELSE LoadFrom(scanner_file.lines, 2, dump_file)

\* ------------------------------------------------------------ save_position
\* positions[key] = value on an insertion-ordered dict: an existing key keeps
\* its place and takes the new value, a new key goes last.
DictSet(d, k, v) ==
  IF \E i \in 1..Len(d) : d[i][1] = k
  THEN [i \in 1..Len(d) |-> IF d[i][1] = k THEN <<k, v>> ELSE d[i]]
  ELSE Append(d, <<k, v>>)

\* The read loop of save_position: every line after the signature is split at
\* '=' and its value converted with int(); nothing catches the ValueError.
SaveParseRaises(scanner_file) ==
  /\ scanner_file.exists
  /\ \E i \in 2..Len(scanner_file.lines) : scanner_file.lines[i].kind # "entry"

RECURSIVE ParsePositions(_, _, _)
ParsePositions(lines, i, d) ==
  IF i > Len(lines) THEN d
  ELSE ParsePositions(lines, i + 1, DictSet(d, lines[i].key, lines[i].val))

WritePositions(d) == [i \in 1..Len(d) |-> fformat(d[i][1], d[i][2])]

\* A plausible slip: the entries read from the file are not carried over.
save_position_drops_others(scanner_file, dump_file, position) ==
  LET signature == IF scanner_file.exists /\ Len(scanner_file.lines) >= 1
                   THEN <<scanner_file.lines[1]>> ELSE <<>>
  IN FileOf(signature \o WritePositions(<<<<dump_file, position>>>>))

\* The file save_position leaves when its read loop does not raise: the first
\* line as read by readline(), then one canonical line per key.
save_position(scanner_file, dump_file, position) ==
  LET signature == IF scanner_file.exists /\ Len(scanner_file.lines) >= 1
                   THEN <<scanner_file.lines[1]>> ELSE <<>>
      positions == IF scanner_file.exists
                   THEN ParsePositions(scanner_file.lines, 2, <<>>)
                   ELSE <<>>
  IN FileOf(signature \o WritePositions(DictSet(positions, dump_file, position)))

vars == <<ckpt, call, scanVars, dlVars, rlVars, ixVars, mnVars>>

\* ------------------------------------------------- SpecCkpt: the store alone
\* The files the two operations are applied to: missing, empty, and every
\* sequence of at most MaxCkptLines lines, well-formed or not.
LineSet ==
  {TextLine("sig")}
    \cup {EntryLine(k, v) : k \in Keys, v \in 0..MaxPos}
    \cup {PaddedEntryLine(k, 1) : k \in Keys}
    \cup {BadValLine(k) : k \in Keys}

RECURSIVE SeqsUpTo(_, _)
SeqsUpTo(S, n) ==
  IF n = 0 THEN {<<>>}
  ELSE LET shorter == SeqsUpTo(S, n - 1)
       IN shorter \cup {Append(q, x) : q \in {r \in shorter : Len(r) = n - 1}, x \in S}

AnyFile == {MissingFile} \cup {FileOf(ls) : ls \in SeqsUpTo(LineSet, MaxCkptLines)}

NoCall == [op |-> "none", key |-> "", pos |-> 0, before |-> MissingFile,
           ret |-> 0, raised |-> FALSE]

\* Only the checkpoint file varies: no scan and no download is running.
InitCkpt ==
  /\ ckpt \in AnyFile
  /\ call = NoCall
  /\ dump = <<>>
  /\ max_phase_matches = 0
  /\ outfile = <<>>
  /\ outbuf = <<>>
  /\ pc = "idle"
  /\ lc = 0
  /\ start = 0
  /\ end = 0
  /\ found_matches = 0
  /\ mi = 0
  /\ nread = 0
  /\ outfile0 = <<>>
  /\ stop = "none"
  /\ hist = [n |-> 0, between_lines |-> TRUE]
  /\ files = <<>>
  /\ server = <<>>
  /\ downloads_set = {}
  /\ failed_downloads_set = {}
  /\ downloaded_files = MissingFile
  /\ invalid_files = MissingFile
  /\ tracker_current = 0
  /\ log_queue = <<>>
  /\ dl_queue = <<>>
  /\ pending = <<>>
  /\ wpc = <<>>
  /\ wfile = <<>>
  /\ wtmp = <<>>
  /\ wlast = <<>>
  /\ attempts = <<>>
  /\ phase = "idle"
  /\ run = 0
  /\ cat_start = 0
  /\ cat = 0
  /\ base = <<1, 1>>
  /\ max = <<1, 1>>
  /\ factor = <<1, 1>>
  /\ delay = <<1, 1>>
  /\ sleeping = FALSE
  /\ pause = TRUE
  /\ rpc = <<>>
  /\ rhint = <<>>
  /\ rlast = "none"
  /\ lt_out = <<>>
  /\ page_out = <<>>
  /\ cl_out = <<>>
  /\ found_files = [exists |-> FALSE, data |-> <<>>]
  /\ ordered_downloads = <<>>
  /\ ipc = "idle"
  /\ merges = 0
  /\ command = "none"
  /\ present = {}
  /\ dumps = <<>>
  /\ rsearch = FALSE
  /\ pfiles = <<>>
  /\ program_set = {}
  /\ mpc = "idle"
  /\ phase_k = 0
  /\ nlines = 0
  /\ exit_code = 0
  /\ worked = <<>>

\* A call of load_position(ckpt, k): the file is only read.
LoadPosition(k) ==
  /\ call' = [op |-> "load", key |-> k, pos |-> 0, before |-> ckpt,
              ret |-> load_position(ckpt, k), raised |-> FALSE]
  /\ UNCHANGED <<ckpt, scanVars, dlVars, rlVars, ixVars, mnVars>>

\* A call of save_position(ckpt, k, p): a ValueError of the read loop leaves
\* the function before the file is reopened for writing.
SavePosition(k, p) ==
  /\ IF SaveParseRaises(ckpt)
     THEN UNCHANGED ckpt
     ELSE ckpt' = save_position(ckpt, k, p)
  /\ call' = [op |-> "save", key |-> k, pos |-> p, before |-> ckpt,
              ret |-> 0, raised |-> SaveParseRaises(ckpt)]
  /\ UNCHANGED <<scanVars, dlVars, rlVars, ixVars, mnVars>>

NextCkpt ==
  \/ \E k \in Keys : LoadPosition(k)
  \/ \E k \in Keys, p \in 0..MaxPos : SavePosition(k, p)

SpecCkpt == InitCkpt /\ [][NextCkpt]_vars

\* ---------------------------------------------------- checkpoint properties
\* A checkpoint file as the program writes it: a signature line, then one
\* 'key=value' line per key.
WellFormed(f) ==
  /\ f.exists
  /\ Len(f.lines) >= 1
  /\ f.lines[1].kind = "text"
  /\ \A i \in 2..Len(f.lines) : f.lines[i].kind = "entry"
  /\ \A i, j \in 2..Len(f.lines) : f.lines[i].key = f.lines[j].key => i = j

\* A file holding a line, after the first, that is no 'key=<integer>' line.
Malformed(f) ==
  /\ f.exists
  /\ \E i \in 2..Len(f.lines) : f.lines[i].kind # "entry"

KeysOf(f) == {f.lines[i].key : i \in 2..Len(f.lines)}
HasEntry(f, k) == f.exists /\ k \in KeysOf(f)
ValueOf(f, k) == LET i == CHOOSE i \in 2..Len(f.lines) : f.lines[i].key = k
                 IN f.lines[i].val

\* C6: save_position(file, k, p) on a well-formed file returns normally and
\* changes only the entry of k: the signature line is the same line, every
\* other key keeps its value (as stored and as load_position reads it), and
\* no key other than k is added or removed.
C6_SaveChangesOnlyItsKey ==
  (call.op = "save" /\ WellFormed(call.before)) =>
    /\ ~call.raised
    /\ ckpt.exists
    /\ Len(ckpt.lines) >= 1
    /\ ckpt.lines[1] = call.before.lines[1]
    /\ KeysOf(ckpt) = KeysOf(call.before) \cup {call.key}
    /\ ValueOf(ckpt, call.key) = call.pos
    /\ \A k \in Keys \ {call.key} :
         /\ load_position(ckpt, k) = load_position(call.before, k)
         /\ HasEntry(call.before, k) => ValueOf(ckpt, k) = ValueOf(call.before, k)

\* C6 witness: an existing entry is updated in a well-formed file that also
\* holds another key with a non-zero value.
C6_Witness ==
  /\ call.op = "save"
  /\ WellFormed(call.before)
  /\ HasEntry(call.before, call.key)
  /\ ValueOf(call.before, call.key) # call.pos
  /\ \E k \in Keys \ {call.key} :
       HasEntry(call.before, k) /\ ValueOf(call.before, k) # 0

\* C7: load_position never raises and returns 0 for an absent key, a missing
\* file and a file with a malformed line; and a malformed checkpoint file
\* makes no checkpoint operation of a run raise.
C7_MalformedNeverFailsRun ==
  /\ call.op = "load" =>
       /\ ~call.raised
       /\ (~HasEntry(call.before, call.key) \/ Malformed(call.before)) => call.ret = 0
  /\ (call.op # "none" /\ Malformed(call.before)) => ~call.raised

\* The states of the checkpoint file the round trip is stated for: missing,
\* empty (no signature line), or a signature line and entries.
RoundTripFile(f) == ~f.exists \/ f.lines = <<>> \/ WellFormed(f)

\* C30: after save_position(file, k, p) on a missing, empty or well-formed
\* file, load_position(file, k) returns p, and still returns p after a
\* save_position of any other key.
C30_CheckpointRoundTrip ==
  (call.op = "save" /\ RoundTripFile(call.before)) =>
    /\ ~call.raised
    /\ load_position(ckpt, call.key) = call.pos
    /\ \A k \in Keys \ {call.key}, q \in 0..MaxPos :
         load_position(save_position(ckpt, k, q), call.key) = call.pos

\* ------------------------------------------------ SpecScan: scan_commons_db
\* A dump line, by what the scan loop can tell apart: NotInsert is a line
\* without "INSERT INTO `table`"; m in 0..MaxMatches is a row-insertion line
\* on which extract_match returns m accepted matches.
NotInsert == 0 - 1
LineKinds == {NotInsert} \cup (0..MaxMatches)
Dumps == {d \in SeqsUpTo(LineKinds, MaxLines) : Len(d) >= 1}

\* extract_match(line, parser): the accepted matches of a row-insertion line,
\* here their number; match i of line n is the record <<n, i>>.
extract_match(line) == IF line = NotInsert THEN 0 ELSE line

\* count_lines_fast(outfile): every record on disk ends with a newline.
count_lines_fast(file) == Len(file)

\* The checkpoint file at the first scan: reset_scanner has written the
\* signature line of the input categories.
FreshCheckpoint == FileOf(<<TextLine("sig")>>)

InitScan ==
  /\ ckpt = FreshCheckpoint
  /\ call = NoCall
  /\ dump \in Dumps
  /\ max_phase_matches \in 0..MaxQuota
  /\ outfile = <<>>
  /\ outbuf = <<>>
  /\ pc = "idle"
  /\ lc = 0
  /\ start = 0
  /\ end = 0
  /\ found_matches = 0
  /\ mi = 0
  /\ nread = 0
  /\ outfile0 = <<>>
  /\ stop = "none"
  /\ hist = [n |-> 0, between_lines |-> TRUE]
  /\ files = <<>>
  /\ server = <<>>
  /\ downloads_set = {}
  /\ failed_downloads_set = {}
  /\ downloaded_files = MissingFile
  /\ invalid_files = MissingFile
  /\ tracker_current = 0
  /\ log_queue = <<>>
  /\ dl_queue = <<>>
  /\ pending = <<>>
  /\ wpc = <<>>
  /\ wfile = <<>>
  /\ wtmp = <<>>
  /\ wlast = <<>>
  /\ attempts = <<>>
  /\ phase = "idle"
  /\ run = 0
  /\ cat_start = 0
  /\ cat = 0
  /\ base = <<1, 1>>
  /\ max = <<1, 1>>
  /\ factor = <<1, 1>>
  /\ delay = <<1, 1>>
  /\ sleeping = FALSE
  /\ pause = TRUE
  /\ rpc = <<>>
  /\ rhint = <<>>
  /\ rlast = "none"
  /\ lt_out = <<>>
  /\ page_out = <<>>
  /\ cl_out = <<>>
  /\ found_files = [exists |-> FALSE, data |-> <<>>]
  /\ ordered_downloads = <<>>
  /\ ipc = "idle"
  /\ merges = 0
  /\ command = "none"
  /\ present = {}
  /\ dumps = <<>>
  /\ rsearch = FALSE
  /\ pfiles = <<>>
  /\ program_set = {}
  /\ mpc = "idle"
  /\ phase_k = 0
  /\ nlines = 0
  /\ exit_code = 0
  /\ worked = <<>>

QuotaReached(n) == max_phase_matches # 0 /\ n >= max_phase_matches

\* A plausible slip: the fully-scanned test always lets the scan run.
MustScan_always(s, e) == TRUE

\* Line 53: the dump is scanned unless a size position is stored and the
\* progress position has reached it.
MustScan(s, e) == e = 0 \/ s < e

\* A plausible slip: the fully-scanned branch leaves lc at 0.
SkippedScanPosition_zero(s) == 0

\* Line 77: the position re-saved when the dump is not scanned.
SkippedScanPosition(s) == s

\* Lines 35-53 and 76-77: entry of scan_commons_db up to the loop.
ScanStart ==
  /\ pc \in {"idle", "done"}
  /\ LET s == load_position(ckpt, formatted_prog_str)
         e == load_position(ckpt, formatted_size_str)
         n == count_lines_fast(outfile)
     IN /\ start' = s
        /\ end' = e
        /\ found_matches' = n
        /\ outfile0' = outfile
        /\ nread' = 0
        /\ mi' = 0
        /\ IF QuotaReached(n)
           THEN /\ pc' = "done"
                /\ stop' = "quota_on_entry"
                /\ lc' = lc
           ELSE IF MustScan(s, e)
           THEN /\ pc' = "loop"
                /\ stop' = "none"
                /\ lc' = 0
           ELSE /\ pc' = "final"
                /\ stop' = "none"
                /\ lc' = SkippedScanPosition(s)
  /\ UNCHANGED <<ckpt, call, dump, max_phase_matches, outfile, outbuf, hist,
                 dlVars, rlVars, ixVars, mnVars>>

\* Line 60: a line is skipped when it is no row insertion or lies below start.
SkipLine(line, n, s) == line = NotInsert \/ n < s

AfterSave(line) == IF extract_match(line) > 0 THEN "write" ELSE "loop"

\* Lines 57-64: the next line is read; a line that is not skipped on a
\* multiple of save_interval saves the position (the flush follows).
NextLine ==
  /\ pc = "loop"
  /\ lc < Len(dump)
  /\ lc' = lc + 1
  /\ nread' = nread + 1
  /\ mi' = 1
  /\ IF SkipLine(dump[lc + 1], lc + 1, start)
     THEN /\ pc' = "loop"
          /\ UNCHANGED ckpt
     ELSE IF (lc + 1) % save_interval = 0
     THEN /\ ckpt' = save_position(ckpt, formatted_prog_str, lc + 1)
          /\ pc' = "flush"
     ELSE /\ pc' = AfterSave(dump[lc + 1])
          /\ UNCHANGED ckpt
  /\ UNCHANGED <<call, dump, max_phase_matches, outfile, outbuf, start, end,
                 found_matches, outfile0, stop, hist,
                 dlVars, rlVars, ixVars, mnVars>>

\* Line 65: outf.flush() after the interval save.
IntervalFlush ==
  /\ pc = "flush"
  /\ outfile' = outfile \o outbuf
  /\ outbuf' = <<>>
  /\ pc' = AfterSave(dump[lc])
  /\ UNCHANGED <<ckpt, call, dump, max_phase_matches, lc, start, end,
                 found_matches, mi, nread, outfile0, stop, hist,
                 dlVars, rlVars, ixVars, mnVars>>

\* Line 69: outf.write(record) goes to the buffer of outf, which writes
\* through to the file only when it holds more than BufCap records.
WriteMatch ==
  /\ pc = "write"
  /\ IF Len(outbuf) + 1 > BufCap
     THEN /\ outfile' = outfile \o Append(outbuf, <<lc, mi>>)
          /\ outbuf' = <<>>
     ELSE /\ outbuf' = Append(outbuf, <<lc, mi>>)
          /\ UNCHANGED outfile
  /\ pc' = "save"
  /\ UNCHANGED <<ckpt, call, dump, max_phase_matches, lc, start, end,
                 found_matches, mi, nread, outfile0, stop, hist,
                 dlVars, rlVars, ixVars, mnVars>>

\* Lines 70-75: the position is saved after the write; when the quota is
\* reached the function returns from inside the with block (outf is closed,
\* nothing else is saved).
SaveMatch ==
  /\ pc = "save"
  /\ ckpt' = save_position(ckpt, formatted_prog_str, lc)
  /\ found_matches' = found_matches + 1
  /\ IF QuotaReached(found_matches + 1)
     THEN /\ pc' = "done"
          /\ stop' = "quota"
          /\ outfile' = outfile \o outbuf
          /\ outbuf' = <<>>
          /\ UNCHANGED mi
     ELSE /\ IF mi < extract_match(dump[lc])
             THEN mi' = mi + 1 /\ pc' = "write"
             ELSE mi' = mi /\ pc' = "loop"
          /\ UNCHANGED <<outfile, outbuf, stop>>
  /\ UNCHANGED <<call, dump, max_phase_matches, lc, start, end, nread,
                 outfile0, hist,
                 dlVars, rlVars, ixVars, mnVars>>

\* End of the for loop: the with block closes outf, which empties its buffer.
EndOfDump ==
  /\ pc = "loop"
  /\ lc = Len(dump)
  /\ outfile' = outfile \o outbuf
  /\ outbuf' = <<>>
  /\ pc' = "final"
  /\ UNCHANGED <<ckpt, call, dump, max_phase_matches, lc, start, end,
                 found_matches, mi, nread, outfile0, stop, hist,
                 dlVars, rlVars, ixVars, mnVars>>

\* Line 80.
SaveFinalProgress ==
  /\ pc = "final"
  /\ ckpt' = save_position(ckpt, formatted_prog_str, lc)
  /\ pc' = "final_size"
  /\ UNCHANGED <<call, dump, max_phase_matches, outfile, outbuf, lc, start, end,
                 found_matches, mi, nread, outfile0, stop, hist,
                 dlVars, rlVars, ixVars, mnVars>>

\* Line 81.
SaveFinalSize ==
  /\ pc = "final_size"
  /\ ckpt' = save_position(ckpt, formatted_size_str, lc)
  /\ pc' = "done"
  /\ stop' = "end"
  /\ UNCHANGED <<call, dump, max_phase_matches, outfile, outbuf, lc, start, end,
                 found_matches, mi, nread, outfile0, hist,
                 dlVars, rlVars, ixVars, mnVars>>

Running == pc \in {"loop", "flush", "write", "save", "final", "final_size"}
InsideWith == pc \in {"loop", "flush", "write", "save"}

\* The scan is interrupted by an exception (KeyboardInterrupt): it leaves the
\* with block, which closes outf, and the process ends.
Interrupt ==
  /\ Running
  /\ hist.n < MaxInterrupts
  /\ hist' = [n |-> hist.n + 1,
              between_lines |-> hist.between_lines /\ pc = "loop"]
  /\ outfile' = IF InsideWith THEN outfile \o outbuf ELSE outfile
  /\ outbuf' = <<>>
  /\ pc' = "idle"
  /\ stop' = "interrupted"
  /\ UNCHANGED <<ckpt, call, dump, max_phase_matches, lc, start, end,
                 found_matches, mi, nread, outfile0,
                 dlVars, rlVars, ixVars, mnVars>>

\* The process dies (kill, power loss): what outf still buffers is lost.
Die ==
  /\ Running
  /\ hist.n < MaxInterrupts
  /\ hist' = [n |-> hist.n + 1, between_lines |-> FALSE]
  /\ outbuf' = <<>>
  /\ pc' = "idle"
  /\ stop' = "died"
  /\ UNCHANGED <<ckpt, call, dump, max_phase_matches, outfile, lc, start, end,
                 found_matches, mi, nread, outfile0,
                 dlVars, rlVars, ixVars, mnVars>>

NextScan ==
  \/ ScanStart
  \/ NextLine
  \/ IntervalFlush
  \/ WriteMatch
  \/ SaveMatch
  \/ EndOfDump
  \/ SaveFinalProgress
  \/ SaveFinalSize
  \/ Interrupt
  \/ Die

SpecScan == InitScan /\ [][NextScan]_vars

\* --------------------------------------------------------- scan properties
\* The output file one uninterrupted scan of dump d under quota q leaves: the
\* records of all accepted matches in line order, cut at the quota.
RECURSIVE MatchesOfLine(_, _, _)
MatchesOfLine(n, m, i) ==
  IF i > m THEN <<>> ELSE <<<<n, i>>>> \o MatchesOfLine(n, m, i + 1)

RECURSIVE MatchesFrom(_, _)
MatchesFrom(d, n) ==
  IF n > Len(d) THEN <<>>
  ELSE MatchesOfLine(n, extract_match(d[n]), 1) \o MatchesFrom(d, n + 1)

UninterruptedOutput(d, q) ==
  LET all == MatchesFrom(d, 1)
  IN IF q # 0 /\ Len(all) > q THEN SubSeq(all, 1, q) ELSE all

Range(f) == {f[i] : i \in 1..Len(f)}

\* A scan that was never interrupted leaves the reference output.
UninterruptedScanMatchesReference ==
  (pc = "done" /\ hist.n = 0) => outfile = UninterruptedOutput(dump, max_phase_matches)

\* C1: a scan interrupted once between two lines and then run again to
\* completion leaves the output file of one uninterrupted scan: no record
\* missing, none duplicated, same order.
C1_ResumedScanEqualsUninterrupted ==
  (pc = "done" /\ hist.n <= 1 /\ hist.between_lines) =>
    outfile = UninterruptedOutput(dump, max_phase_matches)

\* C2: wherever the process may die, every accepted match on a line numbered
\* below the persisted progress position is in the on-disk output file.
C2_MatchOnDiskBeforeCheckpoint ==
  LET expected == UninterruptedOutput(dump, max_phase_matches)
  IN \A i \in 1..Len(expected) :
       expected[i][1] < load_position(ckpt, formatted_prog_str)
         => expected[i] \in Range(outfile)

\* C3: a scan that returns because the quota is reached, during the scan or
\* on entry, has persisted the final line position under the progress key and
\* under the size key.
C3_QuotaStopSavesBothKeys ==
  (pc = "done" /\ stop \in {"quota", "quota_on_entry"}) =>
    /\ load_position(ckpt, formatted_size_str) # 0
    /\ load_position(ckpt, formatted_size_str) = load_position(ckpt, formatted_prog_str)
    /\ stop = "quota" => load_position(ckpt, formatted_prog_str) = lc

\* The entry condition of C4, on the positions this invocation loaded.
AlreadyScanned == end # 0 /\ start >= end

\* C4: an invocation that finds a non-zero size position and a progress
\* position at or beyond it reads no line, leaves the output file unchanged
\* and returns with that position stored under both keys; and a scan that
\* ran to the end of the dump leaves the store in this condition.
C4_FullyScannedDumpIsSkipped ==
  /\ (AlreadyScanned /\ (Running \/ pc = "done")) =>
       /\ nread = 0
       /\ outfile = outfile0
       /\ outbuf = <<>>
       /\ pc = "done" =>
            /\ load_position(ckpt, formatted_prog_str) = start
            /\ load_position(ckpt, formatted_size_str) = start
  /\ (pc = "done" /\ stop = "end") =>
       /\ load_position(ckpt, formatted_size_str) # 0
       /\ load_position(ckpt, formatted_prog_str)
            >= load_position(ckpt, formatted_size_str)

\* C4 witness: a second invocation of a scan that had found matches returned
\* through the fully-scanned branch.
C4_Witness ==
  /\ pc = "done"
  /\ stop = "end"
  /\ AlreadyScanned
  /\ nread = 0
  /\ Len(outfile) > 0

\* C5: over scans, interruptions and resumed scans of one dump, no
\* save_position lowers the position stored under the progress key or under
\* the size key.
C5_PositionsNeverDecrease ==
  [][\A k \in {formatted_prog_str, formatted_size_str} :
       load_position(ckpt', k) >= load_position(ckpt, k)]_vars

\* C5 witness: a resumed scan has saved a position beyond the one it loaded.
C5_Witness ==
  /\ hist.n >= 1
  /\ Running
  /\ start > 0
  /\ load_position(ckpt, formatted_prog_str) > start

\* ------------------------------------------- SpecDl: the download engine
FileNames == {"a.jpg", "b.jpg"}
Workers == 1..max_workers
download_size_key == "download:size"

\* What the server does with the successive requests for one filename: a
\* status code, or "exc" for a transport failure (requests.get raises); the
\* last answer repeats.
Scripts == {<<"200">>, <<"429", "429", "200">>, <<"503">>, <<"404">>, <<"exc">>}
Response(f, n) == LET sc == server[f] IN sc[IF n > Len(sc) THEN Len(sc) ELSE n]

\* The persisted downloaded / failed lists a run may find.
PersistedLists ==
  {<<MissingFile, MissingFile>>,
   <<FileOf(<<>>), FileOf(<<>>)>>,
   <<FileOf(<<"a.jpg">>), FileOf(<<>>)>>,
   <<FileOf(<<>>), FileOf(<<"b.jpg">>)>>}

InitDl ==
  /\ ckpt \in {FreshCheckpoint,
               save_position(FreshCheckpoint, download_cat_key, 1)}
  /\ call = NoCall
  /\ dump = <<>>
  /\ max_phase_matches = 0
  /\ outfile = <<>>
  /\ outbuf = <<>>
  /\ pc = "idle"
  /\ lc = 0
  /\ start = 0
  /\ end = 0
  /\ found_matches = 0
  /\ mi = 0
  /\ nread = 0
  /\ outfile0 = <<>>
  /\ stop = "none"
  /\ hist = [n |-> 0, between_lines |-> TRUE]
  /\ files \in {f \in SeqsUpTo(FileNames, MaxFiles) : Len(f) >= 1}
  /\ server \in [FileNames -> Scripts]
  /\ downloads_set = {}
  /\ failed_downloads_set = {}
  /\ \E pl \in PersistedLists : downloaded_files = pl[1] /\ invalid_files = pl[2]
  /\ tracker_current = 0
  /\ log_queue = <<>>
  /\ dl_queue = <<>>
  /\ pending = <<>>
  /\ wpc = [w \in Workers |-> "idle"]
  /\ wfile = [w \in Workers |-> ""]
  /\ wtmp = [w \in Workers |-> 0]
  /\ wlast = [w \in Workers |-> "none"]
  /\ attempts = [f \in FileNames |-> 0]
  /\ phase = "init"
  /\ run = 1
  /\ cat_start = 0
  /\ cat = 1
  /\ base = <<1, 1>>
  /\ max = <<1, 1>>
  /\ factor = <<1, 1>>
  /\ delay = <<1, 1>>
  /\ sleeping = FALSE
  /\ pause = TRUE
  /\ rpc = <<>>
  /\ rhint = <<>>
  /\ rlast = "none"
  /\ lt_out = <<>>
  /\ page_out = <<>>
  /\ cl_out = <<>>
  /\ found_files = [exists |-> FALSE, data |-> <<>>]
  /\ ordered_downloads = <<>>
  /\ ipc = "idle"
  /\ merges = 0
  /\ command = "none"
  /\ present = {}
  /\ dumps = <<>>
  /\ rsearch = FALSE
  /\ pfiles = <<>>
  /\ program_set = {}
  /\ mpc = "idle"
  /\ phase_k = 0
  /\ nlines = 0
  /\ exit_code = 0
  /\ worked = <<>>

\* fformat('download', category, 'size', sep=':') of the category the loop
\* is at (lines 112 and 175).
CatKey(c) == IF c <= 1 THEN download_cat_key ELSE download_cat2_key

\* files[start:total]: the 1-based indices of the slice, in order.
Slice(n, s) ==
  LET hi == IF n < total THEN n ELSE total
  IN [i \in 1..(IF hi > s THEN hi - s ELSE 0) |-> s + i]

\* Lines 133-193 of download_media_files, for one requested category with a
\* non-empty file list that is not marked complete: the persisted sets are
\* loaded (a missing downloaded list skips the failed list too), the index
\* size is saved, the cursor is read, the tracker starts at it and the slice
\* is handed to the pool. (tracker._matches mirrors tracker._current and is
\* read by the progress printer only.)
StartCategory ==
  /\ phase = "init"
  /\ downloads_set' = IF downloaded_files.exists
                      THEN Range(downloaded_files.lines) ELSE downloads_set
  /\ failed_downloads_set' = IF downloaded_files.exists /\ invalid_files.exists
                             THEN Range(invalid_files.lines)
                             ELSE failed_downloads_set
  /\ LET saved == save_position(ckpt, download_size_key, Len(files))
         cursor == load_position(saved, download_cat_key)
     IN /\ ckpt' = saved
        /\ cat_start' = cursor
        /\ tracker_current' = cursor
        /\ pending' = Slice(Len(files), cursor)
  /\ phase' = "pool"
  /\ UNCHANGED <<call, scanVars, rlVars, ixVars, mnVars, run, cat, files, server,
                 downloaded_files, invalid_files,
                 log_queue, dl_queue, wpc, wfile, wtmp, wlast, attempts>>

\* A pool thread takes the next call download_file(pctx, files[i], ...).
Dispatch(w) ==
  /\ phase = "pool"
  /\ wpc[w] = "idle"
  /\ pending # <<>>
  /\ wfile' = [wfile EXCEPT ![w] = files[Head(pending)]]
  /\ pending' = Tail(pending)
  /\ wpc' = [wpc EXCEPT ![w] = "check"]
  /\ UNCHANGED <<ckpt, call, scanVars, rlVars, ixVars, mnVars, run, cat_start, cat,
                 files,
                 server, downloads_set,
                 failed_downloads_set, downloaded_files, invalid_files,
                 tracker_current, log_queue, dl_queue, wtmp, wlast, attempts,
                 phase>>

\* A plausible slip: only the failed set is consulted.
AlreadyProcessed_failed_only(f, downloaded, failed) == f \in failed

\* A plausible slip: only the downloaded set is consulted.
AlreadyProcessed_downloaded_only(f, downloaded, failed) == f \in downloaded

\* Lines 57-61: the call returns at once for a file in either set.
AlreadyProcessed(f, downloaded, failed) == f \in failed \/ f \in downloaded

\* Lines 56-61: the early returns stand before the try block, so its finally
\* clause does not run for them.
CheckSets(w) ==
  /\ wpc[w] = "check"
  /\ IF AlreadyProcessed(wfile[w], downloads_set, failed_downloads_set)
     THEN /\ wpc' = [wpc EXCEPT ![w] = "idle"]
          /\ wlast' = [wlast EXCEPT ![w] = "skipped"]
     ELSE /\ wpc' = [wpc EXCEPT ![w] = "request"]
          /\ UNCHANGED wlast
  /\ UNCHANGED <<ckpt, call, scanVars, rlVars, ixVars, mnVars, run, cat_start, cat,
                 files,
                 server, downloads_set,
                 failed_downloads_set, downloaded_files, invalid_files,
                 tracker_current, log_queue, dl_queue, pending, wfile, wtmp,
                 attempts,
                 phase>>

\* Lines 70-83: one GET; status 200 stores the body and records the file as
\* downloaded, an exception records it as failed, any other status records
\* nothing.
Request(w) ==
  /\ wpc[w] = "request"
  /\ LET f == wfile[w]
         r == Response(f, attempts[f] + 1)
     IN /\ attempts' = [attempts EXCEPT ![f] = @ + 1]
        /\ downloads_set' = IF r = "200" THEN downloads_set \cup {f}
                            ELSE downloads_set
        /\ dl_queue' = IF r = "200" THEN Append(dl_queue, f) ELSE dl_queue
        /\ failed_downloads_set' = IF r = "exc" THEN failed_downloads_set \cup {f}
                                   ELSE failed_downloads_set
  /\ wpc' = [wpc EXCEPT ![w] = "fin_read"]
  /\ UNCHANGED <<ckpt, call, scanVars, rlVars, ixVars, mnVars, run, cat_start, cat,
                 files,
                 server, downloaded_files,
                 invalid_files, tracker_current, log_queue, pending, wfile, wtmp,
                 wlast,
                 phase>>

\* Line 86, tracker._current += 1: the attribute is read ...
FinallyRead(w) ==
  /\ wpc[w] = "fin_read"
  /\ wtmp' = [wtmp EXCEPT ![w] = tracker_current]
  /\ wpc' = [wpc EXCEPT ![w] = "fin_write"]
  /\ UNCHANGED <<ckpt, call, scanVars, rlVars, ixVars, mnVars, run, cat_start, cat,
                 files,
                 server, downloads_set,
                 failed_downloads_set, downloaded_files, invalid_files,
                 tracker_current, log_queue, dl_queue, pending, wfile, wlast,
                 attempts,
                 phase>>

\* ... and the incremented value is stored.
FinallyWrite(w) ==
  /\ wpc[w] = "fin_write"
  /\ tracker_current' = wtmp[w] + 1
  /\ wpc' = [wpc EXCEPT ![w] = "fin_put"]
  /\ UNCHANGED <<ckpt, call, scanVars, rlVars, ixVars, mnVars, run, cat_start, cat,
                 files,
                 server, downloads_set,
                 failed_downloads_set, downloaded_files, invalid_files,
                 log_queue, dl_queue, pending, wfile, wtmp, wlast, attempts,
                 phase>>

\* Line 88: log_queue.put((category, tracker._current)); the call returns.
FinallyPut(w) ==
  /\ wpc[w] = "fin_put"
  /\ log_queue' = Append(log_queue, tracker_current)
  /\ wpc' = [wpc EXCEPT ![w] = "idle"]
  /\ wlast' = [wlast EXCEPT ![w] = "finished"]
  /\ UNCHANGED <<ckpt, call, scanVars, rlVars, ixVars, mnVars, run, cat_start, cat,
                 files,
                 server, downloads_set,
                 failed_downloads_set, downloaded_files, invalid_files,
                 tracker_current, dl_queue, pending, wfile, wtmp, attempts,
                 phase>>

\* safe_pos_thread, lines 103-114: one item of the queue is saved as the
\* category's cursor.
SavePosThread ==
  /\ phase \in {"pool", "join"}
  /\ log_queue # <<>>
  /\ ckpt' = save_position(ckpt, CatKey(cat), Head(log_queue))
  /\ log_queue' = Tail(log_queue)
  /\ UNCHANGED <<call, scanVars, rlVars, ixVars, mnVars, run, cat_start, cat,
                 files,
                 server, downloads_set,
                 failed_downloads_set, downloaded_files, invalid_files,
                 tracker_current, dl_queue, pending, wpc, wfile, wtmp, wlast,
                 attempts, phase>>

\* writer_thread, lines 90-101: one filename is appended to the downloaded
\* list (opened in append mode, which creates it).
WriterThread ==
  /\ phase \in {"pool", "join"}
  /\ dl_queue # <<>>
  /\ downloaded_files' = FileOf(Append(downloaded_files.lines, Head(dl_queue)))
  /\ dl_queue' = Tail(dl_queue)
  /\ UNCHANGED <<ckpt, call, scanVars, rlVars, ixVars, mnVars, run, cat_start, cat,
                 files,
                 server, downloads_set,
                 failed_downloads_set, invalid_files, tracker_current, log_queue,
                 pending, wpc, wfile, wtmp, wlast, attempts, phase>>

\* A plausible slip: the pool is left (shutdown(wait=False)) while calls are
\* still running.
PoolDrained_no_wait ==
  /\ phase = "pool"
  /\ pending = <<>>
  /\ phase' = "join"
  /\ UNCHANGED <<ckpt, call, scanVars, rlVars, ixVars, mnVars, run, cat_start, cat,
                 files, server, downloads_set,
                 failed_downloads_set, downloaded_files, invalid_files,
                 tracker_current, log_queue, dl_queue, pending, wpc, wfile, wtmp,
                 wlast, attempts>>

\* Lines 192-195: leaving the ThreadPoolExecutor block waits for every call.
PoolDrained ==
  /\ phase = "pool"
  /\ pending = <<>>
  /\ \A w \in Workers : wpc[w] = "idle"
  /\ phase' = "join"
  /\ UNCHANGED <<ckpt, call, scanVars, rlVars, ixVars, mnVars, run, cat_start, cat,
                 files,
                 server, downloads_set,
                 failed_downloads_set, downloaded_files, invalid_files,
                 tracker_current, log_queue, dl_queue, pending, wpc, wfile, wtmp,
                 wlast, attempts>>

\* The lines a set is written as, in some iteration order.
SetLines(S) == {q \in SeqsUpTo(S, Cardinality(S)) : Range(q) = S /\ Len(q) = Cardinality(S)}

\* A plausible slip: the two lists are opened in append mode.
FlushSets_append ==
  /\ phase = "join"
  /\ log_queue = <<>>
  /\ dl_queue = <<>>
  /\ \E q \in SetLines(downloads_set) :
       downloaded_files' = FileOf(downloaded_files.lines \o q)
  /\ \E q \in SetLines(failed_downloads_set) :
       invalid_files' = FileOf(invalid_files.lines \o q)
  /\ phase' = "flushed"
  /\ UNCHANGED <<ckpt, call, scanVars, rlVars, ixVars, mnVars, run, cat_start, cat,
                 files, server, downloads_set,
                 failed_downloads_set, tracker_current, log_queue, dl_queue,
                 pending, wpc, wfile, wtmp, wlast, attempts>>

\* Lines 197-226: both queues are joined and their threads stopped, then the
\* two lists are overwritten with the in-memory sets.
FlushSets ==
  /\ phase = "join"
  /\ log_queue = <<>>
  /\ dl_queue = <<>>
  /\ \E q \in SetLines(downloads_set) : downloaded_files' = FileOf(q)
  /\ \E q \in SetLines(failed_downloads_set) : invalid_files' = FileOf(q)
  /\ phase' = "flushed"
  /\ UNCHANGED <<ckpt, call, scanVars, rlVars, ixVars, mnVars, run, cat_start, cat,
                 files,
                 server, downloads_set,
                 failed_downloads_set, tracker_current, log_queue, dl_queue,
                 pending, wpc, wfile, wtmp, wlast, attempts>>

NextDl ==
  \/ StartCategory
  \/ \E w \in Workers : Dispatch(w)
  \/ \E w \in Workers : CheckSets(w)
  \/ \E w \in Workers : Request(w)
  \/ \E w \in Workers : FinallyRead(w)
  \/ \E w \in Workers : FinallyWrite(w)
  \/ \E w \in Workers : FinallyPut(w)
  \/ SavePosThread
  \/ WriterThread
  \/ PoolDrained
  \/ FlushSets

SpecDl == InitDl /\ [][NextDl]_vars

\* ----------------------------------------------------- download properties
\* C8: a call of download_file for a filename that is in the downloaded set
\* returns at its check: it issues no request and changes neither set, the
\* progress counter, the two queues, the checkpoint file nor the two lists.
C8_DownloadedFileIsSkipped ==
  [][\A w \in Workers :
       (wpc[w] = "check" /\ wfile[w] \in downloads_set /\ wpc'[w] # "check") =>
         /\ wpc'[w] = "idle"
         /\ attempts' = attempts
         /\ downloads_set' = downloads_set
         /\ failed_downloads_set' = failed_downloads_set
         /\ tracker_current' = tracker_current
         /\ log_queue' = log_queue
         /\ dl_queue' = dl_queue
         /\ ckpt' = ckpt
         /\ downloaded_files' = downloaded_files
         /\ invalid_files' = invalid_files]_vars

\* C8 witness: a call for a file that is downloaded, and not failed, has
\* returned at the check.
C8_Witness ==
  \E w \in Workers :
    /\ wpc[w] = "idle"
    /\ wlast[w] = "skipped"
    /\ wfile[w] \in downloads_set
    /\ wfile[w] \notin failed_downloads_set

\* C9: a file whose requests are answered 429, 429, 200 is fetched a third
\* time within the run, is recorded as downloaded and is not abandoned or
\* recorded as failed.
C9_ThrottledFileIsRetried ==
  phase = "flushed" =>
    \A f \in FileNames :
      (attempts[f] >= 1 /\ server[f] = <<"429", "429", "200">>) =>
        /\ attempts[f] >= 3
        /\ f \in downloads_set
        /\ f \notin failed_downloads_set

Succeeded(f) == \E n \in 1..attempts[f] : Response(f, n) = "200"

\* C10: every file for which download_file went past its check ends the run
\* in exactly one of the two sets, and in the failed set when no attempt
\* succeeded.
C10_EveryFileEndsTerminal ==
  phase = "flushed" =>
    \A f \in FileNames :
      attempts[f] >= 1 =>
        /\ f \in downloads_set \/ f \in failed_downloads_set
        /\ ~(f \in downloads_set /\ f \in failed_downloads_set)
        /\ ~Succeeded(f) => f \in failed_downloads_set

\* The requests of the run that were answered 200.
SuccessCount ==
  Cardinality({p \in UNION {{<<f, n>> : n \in 1..attempts[f]} : f \in FileNames} :
                 Response(p[1], p[2]) = "200"})

\* C11: the cursor stored under the category's key exceeds the cursor the
\* run started from by at most the number of downloads that succeeded: a
\* call ending in an exception or a non-200 status does not raise it.
C11_CursorAdvancesOnSuccessOnly ==
  (run = 1 /\ phase # "init") =>
    load_position(ckpt, download_cat_key) <= cat_start + SuccessCount

\* C23: a worker issues its GET only after a wait() of the rate limiter has
\* returned to it, and its call ends after a success() (status 200) or a
\* backoff() (status 429, 5xx) of the rate limiter.
C23_WorkerFollowsLimiterProtocol ==
  [][\A w \in Workers :
       /\ (wpc[w] = "request" /\ wpc'[w] = "fin_read") => rlast = "waited"
       /\ (wpc[w] = "fin_put" /\ wpc'[w] = "idle"
             /\ Response(wfile[w], attempts[wfile[w]]) \in {"200", "429", "503"})
            => rlast \in {"success", "backoff", "noop"}]_vars

\* The download_file calls of the run that went past the check and so ran
\* the finally clause: each issued one request.
CallsCompleted ==
  Cardinality(UNION {{<<f, n>> : n \in 1..attempts[f]} : f \in FileNames})

\* C25: the values saved under the category's cursor key never decrease, and
\* once the pool has drained and the state is flushed the persisted cursor is
\* the cursor read at the start plus the number of completed calls.
C25_CursorUpdatesSerialized ==
  /\ [][load_position(ckpt', download_cat_key)
          >= load_position(ckpt, download_cat_key)]_vars
  /\ [](phase = "flushed" =>
          load_position(ckpt, download_cat_key) = cat_start + CallsCompleted)

\* ------------------------------ SpecDlRuns: download runs one after the other
\* The answers of the server in these runs: a request may fail in transport
\* and a later request for the same file succeed.
RunScripts == {<<"200">>, <<"exc">>, <<"exc", "200">>}

\* The first download run after a fetch: nothing is persisted yet.
InitDlRuns ==
  /\ ckpt = FreshCheckpoint
  /\ call = NoCall
  /\ dump = <<>>
  /\ max_phase_matches = 0
  /\ outfile = <<>>
  /\ outbuf = <<>>
  /\ pc = "idle"
  /\ lc = 0
  /\ start = 0
  /\ end = 0
  /\ found_matches = 0
  /\ mi = 0
  /\ nread = 0
  /\ outfile0 = <<>>
  /\ stop = "none"
  /\ hist = [n |-> 0, between_lines |-> TRUE]
  /\ files \in {f \in SeqsUpTo(FileNames, MaxFiles) : Len(f) >= 1}
  /\ server \in [FileNames -> RunScripts]
  /\ downloads_set = {}
  /\ failed_downloads_set = {}
  /\ downloaded_files = MissingFile
  /\ invalid_files = MissingFile
  /\ tracker_current = 0
  /\ log_queue = <<>>
  /\ dl_queue = <<>>
  /\ pending = <<>>
  /\ wpc = [w \in Workers |-> "idle"]
  /\ wfile = [w \in Workers |-> ""]
  /\ wtmp = [w \in Workers |-> 0]
  /\ wlast = [w \in Workers |-> "none"]
  /\ attempts = [f \in FileNames |-> 0]
  /\ phase = "init"
  /\ run = 1
  /\ cat_start = 0
  /\ cat = 1
  /\ base = <<1, 1>>
  /\ max = <<1, 1>>
  /\ factor = <<1, 1>>
  /\ delay = <<1, 1>>
  /\ sleeping = FALSE
  /\ pause = TRUE
  /\ rpc = <<>>
  /\ rhint = <<>>
  /\ rlast = "none"
  /\ lt_out = <<>>
  /\ page_out = <<>>
  /\ cl_out = <<>>
  /\ found_files = [exists |-> FALSE, data |-> <<>>]
  /\ ordered_downloads = <<>>
  /\ ipc = "idle"
  /\ merges = 0
  /\ command = "none"
  /\ present = {}
  /\ dumps = <<>>
  /\ rsearch = FALSE
  /\ pfiles = <<>>
  /\ program_set = {}
  /\ mpc = "idle"
  /\ phase_k = 0
  /\ nlines = 0
  /\ exit_code = 0
  /\ worked = <<>>

\* The process ends after the flush and the download command is started
\* again: a new ProgramContext has empty sets (context.py lines 45-46); the
\* checkpoint file, the two lists and the server live on.
NextRun ==
  /\ phase = "flushed"
  /\ run < MaxRuns
  /\ run' = run + 1
  /\ phase' = "init"
  /\ downloads_set' = {}
  /\ failed_downloads_set' = {}
  /\ tracker_current' = 0
  /\ cat_start' = 0
  /\ wfile' = [w \in Workers |-> ""]
  /\ wtmp' = [w \in Workers |-> 0]
  /\ wlast' = [w \in Workers |-> "none"]
  /\ UNCHANGED <<ckpt, call, scanVars, rlVars, ixVars, mnVars, cat, files, server,
                 downloaded_files, invalid_files, log_queue, dl_queue, pending,
                 wpc, attempts>>

NextDlRuns ==
  \/ StartCategory
  \/ \E w \in Workers : Dispatch(w)
  \/ \E w \in Workers : CheckSets(w)
  \/ \E w \in Workers : Request(w)
  \/ \E w \in Workers : FinallyRead(w)
  \/ \E w \in Workers : FinallyWrite(w)
  \/ \E w \in Workers : FinallyPut(w)
  \/ SavePosThread
  \/ WriterThread
  \/ PoolDrained
  \/ FlushSets
  \/ NextRun

SpecDlRuns == InitDlRuns /\ [][NextDlRuns]_vars

\* C12: when the first run, which starts with two disjoint sets, has flushed
\* its download state, no filename is in both the downloaded and the failed
\* set, nor in both persisted lists.
C12_SetsDisjointAtFlush ==
  (run = 1 /\ phase = "flushed") =>
    /\ downloads_set \cap failed_downloads_set = {}
    /\ Range(downloaded_files.lines) \cap Range(invalid_files.lines) = {}

\* C13: a download_file call whose check finds the filename in the failed
\* set issues no request; no file leaves the failed set during a run; the
\* flush persists the failed set; and in every run after a flush no request
\* is issued for a filename of the persisted failed list.
C13_FailureIsSticky ==
  [][/\ \A w \in Workers :
          (wpc[w] = "check" /\ wpc'[w] # "check"
             /\ (wfile[w] \in failed_downloads_set
                   \/ (run >= 2 /\ wfile[w] \in Range(invalid_files.lines)))) =>
            /\ wpc'[w] = "idle"
            /\ attempts' = attempts
     /\ phase' # "init" => failed_downloads_set \subseteq failed_downloads_set'
     /\ phase' = "flushed" => Range(invalid_files'.lines) = failed_downloads_set'
    ]_vars

\* C13 witness: in a later run, a call for a file that failed in an earlier
\* run, and whose next request the server would answer with 200, has
\* returned at the check.
C13_Witness ==
  /\ run >= 2
  /\ \E w \in Workers :
       /\ wpc[w] = "idle"
       /\ wlast[w] = "skipped"
       /\ wfile[w] \in failed_downloads_set
       /\ wfile[w] \notin downloads_set
       /\ attempts[wfile[w]] = 1
       /\ server[wfile[w]] = <<"exc", "200">>

\* The files downloaded so far: in the in-memory set or in the persisted
\* list.
Downloaded ==
  downloads_set \cup (IF downloaded_files.exists
                      THEN Range(downloaded_files.lines) ELSE {})

\* C24: in every state (a run may be interrupted in any), every file at an
\* index below the persisted cursor of the category has been downloaded.
C24_CursorDenotesCompletedPrefix ==
  \A i \in 1..Len(files) :
    i <= load_position(ckpt, download_cat_key) => files[i] \in Downloaded

\* C29: the slice a run hands to the pool starts at the persisted cursor,
\* holds consecutive indices, at most the batch cap of them, and is empty
\* only when the cursor has reached the end of the file list.
C29_SliceIsNextBatch ==
  [][(phase = "init" /\ phase' = "pool") =>
       /\ cat_start' = load_position(ckpt', download_cat_key)
       /\ Len(pending') <= total
       /\ \A i \in 1..Len(pending') : pending'[i] = cat_start' + i
       /\ pending' = <<>> => cat_start' >= Len(files)]_vars

\* --------------------------- SpecDlCats: the categories of one download run
\* The file lists of the requested categories of the index (a category with
\* an empty list is passed over at lines 166-167).
CatLists == {<<"a.jpg">>, <<"b.jpg", "a.jpg">>, <<"a.jpg", "b.jpg">>}

\* The first download run after a fetch, at its first requested category.
InitDlCats ==
  /\ ckpt = FreshCheckpoint
  /\ call = NoCall
  /\ dump = <<>>
  /\ max_phase_matches = 0
  /\ outfile = <<>>
  /\ outbuf = <<>>
  /\ pc = "idle"
  /\ lc = 0
  /\ start = 0
  /\ end = 0
  /\ found_matches = 0
  /\ mi = 0
  /\ nread = 0
  /\ outfile0 = <<>>
  /\ stop = "none"
  /\ hist = [n |-> 0, between_lines |-> TRUE]
  /\ files \in CatLists
  /\ server \in [FileNames -> RunScripts]
  /\ downloads_set = {}
  /\ failed_downloads_set = {}
  /\ downloaded_files = MissingFile
  /\ invalid_files = MissingFile
  /\ tracker_current = 0
  /\ log_queue = <<>>
  /\ dl_queue = <<>>
  /\ pending = <<>>
  /\ wpc = [w \in Workers |-> "idle"]
  /\ wfile = [w \in Workers |-> ""]
  /\ wtmp = [w \in Workers |-> 0]
  /\ wlast = [w \in Workers |-> "none"]
  /\ attempts = [f \in FileNames |-> 0]
  /\ phase = "init"
  /\ run = 1
  /\ cat_start = 0
  /\ cat = 1
  /\ base = <<1, 1>>
  /\ max = <<1, 1>>
  /\ factor = <<1, 1>>
  /\ delay = <<1, 1>>
  /\ sleeping = FALSE
  /\ pause = TRUE
  /\ rpc = <<>>
  /\ rhint = <<>>
  /\ rlast = "none"
  /\ lt_out = <<>>
  /\ page_out = <<>>
  /\ cl_out = <<>>
  /\ found_files = [exists |-> FALSE, data |-> <<>>]
  /\ ordered_downloads = <<>>
  /\ ipc = "idle"
  /\ merges = 0
  /\ command = "none"
  /\ present = {}
  /\ dumps = <<>>
  /\ rsearch = FALSE
  /\ pfiles = <<>>
  /\ program_set = {}
  /\ mpc = "idle"
  /\ phase_k = 0
  /\ nlines = 0
  /\ exit_code = 0
  /\ worked = <<>>

\* Lines 157-193 for the next requested category, after the flush of the
\* one before (208-226): its cursor is read under its own key, a new tracker
\* starts at it, new queues and threads are created and its slice is handed
\* to a new pool. The sets stay as they are in memory.
NextCategory ==
  /\ phase = "flushed"
  /\ cat < MaxCats
  /\ cat' = cat + 1
  /\ files' \in CatLists
  /\ LET cursor == load_position(ckpt, CatKey(cat + 1))
     IN /\ cat_start' = cursor
        /\ tracker_current' = cursor
        /\ pending' = Slice(Len(files'), cursor)
  /\ phase' = "pool"
  /\ UNCHANGED <<ckpt, call, scanVars, rlVars, ixVars, mnVars, run, server,
                 downloads_set, failed_downloads_set, downloaded_files,
                 invalid_files, log_queue, dl_queue, wpc, wfile, wtmp, wlast,
                 attempts>>

NextDlCats ==
  \/ StartCategory
  \/ \E w \in Workers : Dispatch(w)
  \/ \E w \in Workers : CheckSets(w)
  \/ \E w \in Workers : Request(w)
  \/ \E w \in Workers : FinallyRead(w)
  \/ \E w \in Workers : FinallyWrite(w)
  \/ \E w \in Workers : FinallyPut(w)
  \/ SavePosThread
  \/ WriterThread
  \/ PoolDrained
  \/ FlushSets
  \/ NextCategory

SpecDlCats == InitDlCats /\ [][NextDlCats]_vars

\* C26: a download_file call runs only inside the pool block of the category
\* the loop is at, and when the loop goes on to the next category every
\* call of the one before has returned, both queues are empty with their
\* threads stopped, and the two lists hold the flushed sets.
C26_CategoriesOneAtATime ==
  /\ [](\A w \in Workers : wpc[w] # "idle" => phase = "pool")
  /\ [][cat' # cat =>
          /\ \A w \in Workers : wpc[w] = "idle"
          /\ pending = <<>>
          /\ log_queue = <<>>
          /\ dl_queue = <<>>
          /\ phase = "flushed"
          /\ Range(downloaded_files.lines) = downloads_set
          /\ Range(invalid_files.lines) = failed_downloads_set]_vars

\* C26 witness: both workers are in calls of the second category, after
\* the first category has downloaded a file.
C26_Witness ==
  /\ cat = 2
  /\ \A w \in Workers : wpc[w] # "idle"
  /\ \E w \in Workers : wpc[w] = "fin_read"
  /\ downloads_set # {}

\* C27: after the flush of a category's batch the downloaded list holds the
\* filenames of the in-memory downloaded set, each once and no other line,
\* and the failed list those of the failed set.
C27_FlushWritesExactlyTheSets ==
  phase = "flushed" =>
    /\ downloaded_files.exists
    /\ Range(downloaded_files.lines) = downloads_set
    /\ Len(downloaded_files.lines) = Cardinality(downloads_set)
    /\ invalid_files.exists
    /\ Range(invalid_files.lines) = failed_downloads_set
    /\ Len(invalid_files.lines) = Cardinality(failed_downloads_set)

\* C27 witness: the second category has flushed after downloads in both
\* batches, whose filenames the writer thread had appended to the list.
C27_Witness ==
  /\ cat = 2
  /\ phase = "flushed"
  /\ downloads_set = FileNames
  /\ attempts["b.jpg"] = 1
  /\ files = <<"b.jpg", "a.jpg">>

\* ------------------------------------- SpecRl: rateLimiter.AdaptiveRateLimiter
\* The delays are Python floats. The model computes them as exact fractions
\* <<n, d>> in lowest terms (n >= 0, d > 0), so that a division by the factor
\* is a division and not a truncation.
RECURSIVE GCD(_, _)
GCD(a, b) == IF b = 0 THEN a ELSE GCD(b, a % b)

Frac(n, d) == LET g == GCD(n, d) IN <<n \div g, d \div g>>
FracLeq(x, y) == x[1] * y[2] <= y[1] * x[2]
FracMul(x, y) == Frac(x[1] * y[1], x[2] * y[2])
FracDiv(x, y) == Frac(x[1] * y[2], x[2] * y[1])
\* max(x, y) and min(x, y) of Python: the first argument wins a tie.
FracMax(x, y) == IF FracLeq(y, x) THEN x ELSE y
FracMin(x, y) == IF FracLeq(x, y) THEN x ELSE y

\* retry_after = None
NoHint == <<>>

\* The constructor arguments and the retry_after values the callers pass: the
\* defaults (1.0, 60.0, 2.0) and one more value of each; hints below the base,
\* inside the range and above the max.
Bases == {<<1, 1>>, <<2, 1>>}
Maxes == {<<5, 1>>, <<60, 1>>}
Factors == {<<2, 1>>, <<3, 1>>}
Hints == {NoHint, <<1, 2>>, <<3, 1>>, <<100, 1>>}
Callers == 1..MaxCallers

\* A plausible slip: the floor at base is left out.
success_without_floor(b, f, d) == FracDiv(d, f)

\* Line 23: self._delay = max(self.base, self._delay / self.factor)
success(b, f, d) == FracMax(b, FracDiv(d, f))

\* Lines 33-36: the delay a backoff sets.
backoff(mx, f, d, retry_after) ==
  IF retry_after # NoHint
  THEN FracMin(mx, retry_after)
  ELSE FracMin(mx, FracMul(d, f))

\* A plausible slip: the flag is not consulted.
BackoffInProgress_never(flag) == FALSE

\* Line 27: if self._sleeping
BackoffInProgress(flag) == flag

\* Lines 5-15: the limiter as constructed; no caller is inside a call.
InitRl ==
  /\ ckpt = FreshCheckpoint
  /\ call = NoCall
  /\ dump = <<>>
  /\ max_phase_matches = 0
  /\ outfile = <<>>
  /\ outbuf = <<>>
  /\ pc = "idle"
  /\ lc = 0
  /\ start = 0
  /\ end = 0
  /\ found_matches = 0
  /\ mi = 0
  /\ nread = 0
  /\ outfile0 = <<>>
  /\ stop = "none"
  /\ hist = [n |-> 0, between_lines |-> TRUE]
  /\ files = <<>>
  /\ server = <<>>
  /\ downloads_set = {}
  /\ failed_downloads_set = {}
  /\ downloaded_files = MissingFile
  /\ invalid_files = MissingFile
  /\ tracker_current = 0
  /\ log_queue = <<>>
  /\ dl_queue = <<>>
  /\ pending = <<>>
  /\ wpc = <<>>
  /\ wfile = <<>>
  /\ wtmp = <<>>
  /\ wlast = <<>>
  /\ attempts = <<>>
  /\ phase = "idle"
  /\ run = 0
  /\ cat_start = 0
  /\ cat = 0
  /\ base \in Bases
  /\ max \in Maxes
  /\ factor \in Factors
  /\ delay = base
  /\ sleeping = FALSE
  /\ pause = TRUE
  /\ rpc = [w \in Callers |-> "idle"]
  /\ rhint = [w \in Callers |-> NoHint]
  /\ rlast = "none"
  /\ lt_out = <<>>
  /\ page_out = <<>>
  /\ cl_out = <<>>
  /\ found_files = [exists |-> FALSE, data |-> <<>>]
  /\ ordered_downloads = <<>>
  /\ ipc = "idle"
  /\ merges = 0
  /\ command = "none"
  /\ present = {}
  /\ dumps = <<>>
  /\ rsearch = FALSE
  /\ pfiles = <<>>
  /\ program_set = {}
  /\ mpc = "idle"
  /\ phase_k = 0
  /\ nlines = 0
  /\ exit_code = 0
  /\ worked = <<>>

\* A caller enters wait() and stands at self._pause.wait() (line 18).
WaitCall(w) ==
  /\ rpc[w] = "idle"
  /\ rpc' = [rpc EXCEPT ![w] = "wait_gate"]
  /\ UNCHANGED <<ckptVars, scanVars, dlVars, ixVars, mnVars, base, max, factor, delay,
                 sleeping, pause, rhint, rlast>>

\* Line 18 returns once the event is set; the caller starts
\* time.sleep(self._delay) (line 19).
WaitGate(w) ==
  /\ rpc[w] = "wait_gate"
  /\ pause
  /\ rpc' = [rpc EXCEPT ![w] = "wait_sleep"]
  /\ UNCHANGED <<ckptVars, scanVars, dlVars, ixVars, mnVars, base, max, factor, delay,
                 sleeping, pause, rhint, rlast>>

\* The sleep of line 19 ends and wait() returns; nothing is looked at again.
WaitReturn(w) ==
  /\ rpc[w] = "wait_sleep"
  /\ rpc' = [rpc EXCEPT ![w] = "idle"]
  /\ rlast' = "waited"
  /\ UNCHANGED <<ckptVars, scanVars, dlVars, ixVars, mnVars, base, max, factor, delay,
                 sleeping, pause, rhint>>

\* A caller enters success() and stands at the lock (line 22).
SuccessCall(w) ==
  /\ rpc[w] = "idle"
  /\ rpc' = [rpc EXCEPT ![w] = "success_lock"]
  /\ UNCHANGED <<ckptVars, scanVars, dlVars, ixVars, mnVars, base, max, factor, delay,
                 sleeping, pause, rhint, rlast>>

\* Lines 22-23, under the lock.
SuccessRun(w) ==
  /\ rpc[w] = "success_lock"
  /\ delay' = success(base, factor, delay)
  /\ rpc' = [rpc EXCEPT ![w] = "idle"]
  /\ rlast' = "success"
  /\ UNCHANGED <<ckptVars, scanVars, dlVars, ixVars, mnVars, base, max, factor,
                 sleeping, pause, rhint>>

\* A caller enters backoff(retry_after) and stands at the lock (line 26).
BackoffCall(w, retry_after) ==
  /\ rpc[w] = "idle"
  /\ rpc' = [rpc EXCEPT ![w] = "backoff_lock"]
  /\ rhint' = [rhint EXCEPT ![w] = retry_after]
  /\ UNCHANGED <<ckptVars, scanVars, dlVars, ixVars, mnVars, base, max, factor, delay,
                 sleeping, pause, rlast>>

\* Lines 26-38, under the lock: the call returns when a backoff is in
\* progress; otherwise it sets the flag, clears the event, stores the new
\* delay and goes on to time.sleep(delay) (line 40) outside the lock.
BackoffEnter(w) ==
  /\ rpc[w] = "backoff_lock"
  /\ IF BackoffInProgress(sleeping)
     THEN /\ rpc' = [rpc EXCEPT ![w] = "idle"]
          /\ rlast' = "noop"
          /\ UNCHANGED <<delay, sleeping, pause>>
     ELSE /\ sleeping' = TRUE
          /\ pause' = FALSE
          /\ delay' = backoff(max, factor, delay, rhint[w])
          /\ rpc' = [rpc EXCEPT ![w] = "backoff_sleep"]
          /\ UNCHANGED rlast
  /\ rhint' = [rhint EXCEPT ![w] = NoHint]
  /\ UNCHANGED <<ckptVars, scanVars, dlVars, ixVars, mnVars, base, max, factor>>

\* Lines 40-44: the sleep ends; under the lock the flag is reset and the
\* event set.
BackoffWake(w) ==
  /\ rpc[w] = "backoff_sleep"
  /\ sleeping' = FALSE
  /\ pause' = TRUE
  /\ rpc' = [rpc EXCEPT ![w] = "idle"]
  /\ rlast' = "backoff"
  /\ UNCHANGED <<ckptVars, scanVars, dlVars, ixVars, mnVars, base, max, factor, delay,
                 rhint>>

NextRl ==
  \/ \E w \in Callers : WaitCall(w)
  \/ \E w \in Callers : WaitGate(w)
  \/ \E w \in Callers : WaitReturn(w)
  \/ \E w \in Callers : SuccessCall(w)
  \/ \E w \in Callers : SuccessRun(w)
  \/ \E w \in Callers, h \in Hints : BackoffCall(w, h)
  \/ \E w \in Callers : BackoffEnter(w)
  \/ \E w \in Callers : BackoffWake(w)

SpecRl == InitRl /\ [][NextRl]_vars

\* --------------------------------------------------- rate limiter properties
RECURSIVE SuccessTimes(_, _)
SuccessTimes(d, n) ==
  IF n = 0 THEN d ELSE SuccessTimes(success(base, factor, d), n - 1)

\* C14: a success() call that finds a delay >= base sets the delay to
\* max(base, delay / factor); the new delay is not above the old one and not
\* below base, and MaxSuccessCalls calls in a row bring the delay to base.
C14_SuccessDecreasesToBase ==
  [][\A w \in Callers :
       (rpc[w] = "success_lock" /\ rpc'[w] = "idle" /\ FracLeq(base, delay)) =>
         /\ delay' = FracMax(base, FracDiv(delay, factor))
         /\ FracLeq(delay', delay)
         /\ FracLeq(base, delay')
         /\ SuccessTimes(delay, MaxSuccessCalls) = base]_vars

\* C14 witness: a success() call has lowered a delay that was above base to a
\* value that is still above base.
C14_Witness ==
  /\ rlast = "success"
  /\ delay # base
  /\ FracLeq(base, delay)
  /\ delay # max

\* C15: in every state base <= delay <= max.
C15_DelayWithinBounds ==
  /\ FracLeq(base, delay)
  /\ FracLeq(delay, max)

\* C16: a backoff() call that takes the lock while a backoff is in progress
\* returns and changes neither the delay, the flag nor the gate; at most one
\* caller is inside the sleep of a backoff.
C16_ConcurrentBackoffIsNoop ==
  [][/\ \A w \in Callers :
          (rpc[w] = "backoff_lock" /\ rpc'[w] # "backoff_lock" /\ sleeping) =>
            /\ rpc'[w] = "idle"
            /\ delay' = delay
            /\ sleeping' = sleeping
            /\ pause' = pause
     /\ \A v, w \in Callers :
          (rpc'[v] = "backoff_sleep" /\ rpc'[w] = "backoff_sleep") => v = w]_vars

\* C16 witness: while one caller sleeps in its backoff, the backoff() call of
\* another caller has returned as a no-op.
C16_Witness ==
  /\ rlast = "noop"
  /\ sleeping
  /\ ~pause
  /\ \E w \in Callers : rpc[w] = "backoff_sleep"

\* C17: wait() returns only while the gate is open: no caller leaves wait()
\* between the closing of the gate by a backoff and its reopening.
C17_NoWaitReturnsDuringBackoff ==
  [][\A w \in Callers :
       (rpc[w] = "wait_sleep" /\ rpc'[w] = "idle") => pause]_vars

\* ----------------------- SpecRlLive: the gate under the hints of a server
\* The Retry-After header as the engine would pass it on: absent, or a
\* string that float() converts (zero, a value above max, a negative value),
\* or one it does not (an HTTP date): a fraction with denominator 0.
NonNumeric == <<0, 0>>
ServerHints == {NoHint, <<0, 1>>, <<100, 1>>, <<0 - 1, 1>>, NonNumeric}
LiveCallers == {1, 2}
Negative(d) == d[1] < 0

\* No backoff has been called: the gate is open.
InitRlLive ==
  /\ ckpt = FreshCheckpoint
  /\ call = NoCall
  /\ dump = <<>>
  /\ max_phase_matches = 0
  /\ outfile = <<>>
  /\ outbuf = <<>>
  /\ pc = "idle"
  /\ lc = 0
  /\ start = 0
  /\ end = 0
  /\ found_matches = 0
  /\ mi = 0
  /\ nread = 0
  /\ outfile0 = <<>>
  /\ stop = "none"
  /\ hist = [n |-> 0, between_lines |-> TRUE]
  /\ files = <<>>
  /\ server = <<>>
  /\ downloads_set = {}
  /\ failed_downloads_set = {}
  /\ downloaded_files = MissingFile
  /\ invalid_files = MissingFile
  /\ tracker_current = 0
  /\ log_queue = <<>>
  /\ dl_queue = <<>>
  /\ pending = <<>>
  /\ wpc = <<>>
  /\ wfile = <<>>
  /\ wtmp = <<>>
  /\ wlast = <<>>
  /\ attempts = <<>>
  /\ phase = "idle"
  /\ run = 0
  /\ cat_start = 0
  /\ cat = 0
  /\ base = <<1, 1>>
  /\ max = <<5, 1>>
  /\ factor = <<2, 1>>
  /\ delay = base
  /\ sleeping = FALSE
  /\ pause = TRUE
  /\ rpc = [w \in LiveCallers |-> "idle"]
  /\ rhint = [w \in LiveCallers |-> NoHint]
  /\ rlast = "none"
  /\ lt_out = <<>>
  /\ page_out = <<>>
  /\ cl_out = <<>>
  /\ found_files = [exists |-> FALSE, data |-> <<>>]
  /\ ordered_downloads = <<>>
  /\ ipc = "idle"
  /\ merges = 0
  /\ command = "none"
  /\ present = {}
  /\ dumps = <<>>
  /\ rsearch = FALSE
  /\ pfiles = <<>>
  /\ program_set = {}
  /\ mpc = "idle"
  /\ phase_k = 0
  /\ nlines = 0
  /\ exit_code = 0
  /\ worked = <<>>

\* A caller enters backoff(retry_after) with a hint of the server and
\* stands at the lock (line 26).
ServerBackoffCall(w, retry_after) ==
  /\ rpc[w] = "idle"
  /\ rpc' = [rpc EXCEPT ![w] = "backoff_lock"]
  /\ rhint' = [rhint EXCEPT ![w] = retry_after]
  /\ UNCHANGED <<ckptVars, scanVars, dlVars, ixVars, mnVars, base, max, factor,
                 delay, sleeping, pause, rlast>>

\* Lines 26-38, under the lock. The flag is set and the event cleared
\* (30-31) before the hint is converted (34): float() of a non-numeric
\* hint raises ValueError there, and the call ends with the gate closed.
ServerBackoffEnter(w) ==
  /\ rpc[w] = "backoff_lock"
  /\ IF BackoffInProgress(sleeping)
     THEN /\ rpc' = [rpc EXCEPT ![w] = "idle"]
          /\ rlast' = "noop"
          /\ UNCHANGED <<delay, sleeping, pause>>
     ELSE /\ sleeping' = TRUE
          /\ pause' = FALSE
          /\ IF rhint[w] = NonNumeric
             THEN /\ rpc' = [rpc EXCEPT ![w] = "idle"]
                  /\ rlast' = "raised"
                  /\ UNCHANGED delay
             ELSE /\ delay' = backoff(max, factor, delay, rhint[w])
                  /\ rpc' = [rpc EXCEPT ![w] = "backoff_sleep"]
                  /\ UNCHANGED rlast
  /\ rhint' = [rhint EXCEPT ![w] = NoHint]
  /\ UNCHANGED <<ckptVars, scanVars, dlVars, ixVars, mnVars, base, max, factor>>

\* Line 40: time.sleep(delay) raises ValueError for a negative delay, and
\* lines 42-44 are not reached.
BackoffSleepRaises(w) ==
  /\ rpc[w] = "backoff_sleep"
  /\ Negative(delay)
  /\ rpc' = [rpc EXCEPT ![w] = "idle"]
  /\ rlast' = "raised"
  /\ UNCHANGED <<ckptVars, scanVars, dlVars, ixVars, mnVars, base, max, factor,
                 delay, sleeping, pause, rhint>>

\* Lines 40-44 for a delay that time.sleep accepts.
ServerBackoffWake(w) ==
  /\ ~Negative(delay)
  /\ BackoffWake(w)

NextRlLive ==
  \/ \E w \in LiveCallers : WaitCall(w)
  \/ \E w \in LiveCallers : WaitGate(w)
  \/ \E w \in LiveCallers : WaitReturn(w)
  \/ \E w \in LiveCallers, h \in ServerHints : ServerBackoffCall(w, h)
  \/ \E w \in LiveCallers : ServerBackoffEnter(w)
  \/ \E w \in LiveCallers : BackoffSleepRaises(w)
  \/ \E w \in LiveCallers : ServerBackoffWake(w)

\* A thread that can take a step takes it: a sleep ends, a lock is granted,
\* a set event wakes its waiters. Whether a thread calls the limiter again
\* is up to the thread.
FairRlLive ==
  \A w \in LiveCallers :
    /\ WF_vars(WaitGate(w))
    /\ WF_vars(WaitReturn(w))
    /\ WF_vars(ServerBackoffEnter(w))
    /\ WF_vars(BackoffSleepRaises(w))
    /\ WF_vars(ServerBackoffWake(w))

SpecRlLive == InitRlLive /\ [][NextRlLive]_vars /\ FairRlLive

\* C28: a closed gate is reopened and a set backing-off flag is cleared,
\* whatever the hint of the backoff that closed it, and a caller blocked at
\* the gate in wait() gets through.
C28_GateEventuallyReopens ==
  /\ (~pause) ~> pause
  /\ sleeping ~> ~sleeping
  /\ \A w \in LiveCallers : (rpc[w] = "wait_gate") ~> (rpc[w] = "wait_sleep")

\* ------------------------- SpecIx: the index builder (retrace and the merge)
\* The scan outputs as retrace parses them: a linktarget or page line
\* 'id\ttitle' is the row <<id, title>>, a categorylinks line
\* 'id\tsortkey\ttarget_id' is the row <<id, target_id>> (the sortkey is
\* dropped at line 96). Ids are primary keys of the dumps, so an id has one
\* title; an output holds a row twice when a resumed scan has matched its
\* line again. Id 3 is in no linktarget and no page output.
LtOutputs ==
  {<<>>,
   <<<<1, "CatA">>, <<2, "CatB">>>>,
   <<<<1, "CatA">>, <<1, "CatA">>>>}
PageOutputs ==
  {<<>>,
   <<<<1, "a.jpg">>, <<2, "b.jpg">>>>,
   <<<<2, "b.jpg">>, <<2, "b.jpg">>>>}
ClRows == {<<id, tid>> : id \in 1..3, tid \in 1..3}
ClOutputs == SeqsUpTo(ClRows, MaxRows)

\* The persisted index a fetch may find: a dictionary in insertion order,
\* category -> {id, n_files, files}; absent before the first fetch.
Entry(c, i, fs) == [cat |-> c, id |-> i, n_files |-> Len(fs), files |-> fs]
Indexes ==
  {[exists |-> FALSE, data |-> <<>>],
   [exists |-> TRUE, data |-> <<Entry("CatA", 2, <<"b.jpg">>)>>],
   [exists |-> TRUE, data |-> <<Entry("CatB", 1, <<"a.jpg">>),
                               Entry("CatA", 2, <<"b.jpg">>)>>]}

\* The dictionaries of lines 80-91, filled row by row: 'k in d' and d[k],
\* where the last row of a key holds its value.
HasKey(rows, k) == \E i \in 1..Len(rows) : rows[i][1] = k
Lookup(rows, k) ==
  LET i == CHOOSE i \in 1..Len(rows) :
             rows[i][1] = k /\ \A j \in (i + 1)..Len(rows) : rows[j][1] # k
  IN rows[i][2]

\* d.get(k): None for an absent key.
None == "None"
DictGet(rows, k) == IF HasKey(rows, k) THEN Lookup(rows, k) ELSE None

\* A plausible slip: the test of the looked-up title is left out.
Falsy_never(v) == FALSE

\* Line 105, 'not title': true of None and of the empty string.
Falsy(v) == v = None \/ v = ""

HasCat(d, c) == \E k \in 1..Len(d) : d[k].cat = c

\* Lines 115-117: the filename is appended to the entry of the title and the
\* entry's count incremented.
AppendFile(d, c, f) ==
  [k \in 1..Len(d) |->
     IF d[k].cat = c
     THEN [d[k] EXCEPT !.files = Append(@, f), !.n_files = @ + 1]
     ELSE d[k]]

\* Lines 93-117: the loop over the categorylinks output.
RECURSIVE RetraceFrom(_, _, _, _, _)
RetraceFrom(lt, page, cl, i, d) ==
  IF i > Len(cl) THEN d
  ELSE LET id == cl[i][1]
           tid == cl[i][2]
           title == DictGet(lt, tid)
       IN IF ~HasKey(page, id) THEN RetraceFrom(lt, page, cl, i + 1, d)
          ELSE IF Falsy(title) THEN RetraceFrom(lt, page, cl, i + 1, d)
          ELSE LET d1 == IF HasCat(d, title) THEN d
                         ELSE Append(d, [cat |-> title, id |-> id,
                                         n_files |-> 0, files |-> <<>>])
               IN RetraceFrom(lt, page, cl, i + 1,
                              AppendFile(d1, title, Lookup(page, id)))

retrace(lt, page, cl) == RetraceFrom(lt, page, cl, 1, <<>>)

\* A plausible slip: every file of the builder output is taken as new.
NewFiles_all(sub_files, existing_files) == sub_files

\* Lines 149-150: the files of the builder output that the entry lacks.
NewFiles(sub_files, existing_files) ==
  SelectSeq(sub_files, LAMBDA f : f \notin Range(existing_files))

\* Lines 141-152: the loop over the builder output.
RECURSIVE UpdateFrom(_, _, _)
UpdateFrom(existing, data, i) ==
  IF i > Len(data) THEN existing
  ELSE LET sub == data[i]
       IN IF ~HasCat(existing, sub.cat)
          THEN UpdateFrom(Append(existing,
                                 [cat |-> sub.cat, id |-> sub.id,
                                  n_files |-> Len(sub.files),
                                  files |-> sub.files]),
                          data, i + 1)
          ELSE UpdateFrom(
                 [k \in 1..Len(existing) |->
                    IF existing[k].cat = sub.cat
                    THEN LET all == existing[k].files
                                      \o NewFiles(sub.files, existing[k].files)
                         IN [existing[k] EXCEPT !.files = all,
                                                !.n_files = Len(all)]
                    ELSE existing[k]],
                 data, i + 1)

\* Lines 135-139: the index read from the file, {} when it does not exist.
Existing(json_file) == IF json_file.exists THEN json_file.data ELSE <<>>

\* update_found_files(json_file, data): the file it leaves.
update_found_files(json_file, data) ==
  [exists |-> TRUE, data |-> UpdateFrom(Existing(json_file), data, 1)]

\* The three scans are over; the fetch command is about to build the index.
InitIx ==
  /\ ckpt = FreshCheckpoint
  /\ call = NoCall
  /\ dump = <<>>
  /\ max_phase_matches = 0
  /\ outfile = <<>>
  /\ outbuf = <<>>
  /\ pc = "idle"
  /\ lc = 0
  /\ start = 0
  /\ end = 0
  /\ found_matches = 0
  /\ mi = 0
  /\ nread = 0
  /\ outfile0 = <<>>
  /\ stop = "none"
  /\ hist = [n |-> 0, between_lines |-> TRUE]
  /\ files = <<>>
  /\ server = <<>>
  /\ downloads_set = {}
  /\ failed_downloads_set = {}
  /\ downloaded_files = MissingFile
  /\ invalid_files = MissingFile
  /\ tracker_current = 0
  /\ log_queue = <<>>
  /\ dl_queue = <<>>
  /\ pending = <<>>
  /\ wpc = <<>>
  /\ wfile = <<>>
  /\ wtmp = <<>>
  /\ wlast = <<>>
  /\ attempts = <<>>
  /\ phase = "idle"
  /\ run = 0
  /\ cat_start = 0
  /\ cat = 0
  /\ base = <<1, 1>>
  /\ max = <<1, 1>>
  /\ factor = <<1, 1>>
  /\ delay = <<1, 1>>
  /\ sleeping = FALSE
  /\ pause = TRUE
  /\ rpc = <<>>
  /\ rhint = <<>>
  /\ rlast = "none"
  /\ lt_out \in LtOutputs
  /\ page_out \in PageOutputs
  /\ cl_out \in ClOutputs
  /\ found_files \in Indexes
  /\ ordered_downloads = <<>>
  /\ ipc = "start"
  /\ merges = 0
  /\ command = "none"
  /\ present = {}
  /\ dumps = <<>>
  /\ rsearch = FALSE
  /\ pfiles = <<>>
  /\ program_set = {}
  /\ mpc = "idle"
  /\ phase_k = 0
  /\ nlines = 0
  /\ exit_code = 0
  /\ worked = <<>>

\* main.py line 236 (and 259), the argument: retrace(pctx).
Retrace ==
  /\ ipc = "start"
  /\ merges < MaxMerges
  /\ ordered_downloads' = retrace(lt_out, page_out, cl_out)
  /\ ipc' = "retraced"
  /\ UNCHANGED <<ckptVars, scanVars, dlVars, rlVars, mnVars, lt_out, page_out, cl_out,
                 found_files, merges>>

\* main.py line 236, the call: update_found_files(pctx.found_files, ...); the
\* command ends, and a later fetch finds the same scan outputs.
UpdateFoundFiles ==
  /\ ipc = "retraced"
  /\ found_files' = update_found_files(found_files, ordered_downloads)
  /\ ipc' = "start"
  /\ merges' = merges + 1
  /\ UNCHANGED <<ckptVars, scanVars, dlVars, rlVars, mnVars, lt_out, page_out, cl_out,
                 ordered_downloads>>

NextIx ==
  \/ Retrace
  \/ UpdateFoundFiles

SpecIx == InitIx /\ [][NextIx]_vars

\* ------------------------------------------------ index builder properties
\* Row i of the categorylinks output resolves to category c: its page id is
\* in the page output and its target id is in the linktarget output with
\* title c.
Resolves(i, c) ==
  /\ HasKey(page_out, cl_out[i][1])
  /\ HasKey(lt_out, cl_out[i][2])
  /\ Lookup(lt_out, cl_out[i][2]) = c

ResolvingRows(c) == {i \in 1..Len(cl_out) : Resolves(i, c)}

\* C18: in the dictionary retrace returns, a category has an entry exactly
\* when some categorylinks row resolves to it, it has one entry, a filename
\* is in its list exactly when a row with that file resolves to it, and the
\* list has one element per resolving row (so 3 rows of which 2 resolve to
\* one category give 1 entry with 2 files).
C18_RetraceIndexesResolvingRows ==
  ipc = "retraced" =>
    /\ \A k \in 1..Len(ordered_downloads) :
         LET e == ordered_downloads[k]
         IN /\ ResolvingRows(e.cat) # {}
            /\ Len(e.files) = Cardinality(ResolvingRows(e.cat))
            /\ Range(e.files) =
                 {Lookup(page_out, cl_out[i][1]) : i \in ResolvingRows(e.cat)}
            /\ \A j \in 1..Len(ordered_downloads) :
                 ordered_downloads[j].cat = e.cat => j = k
    /\ \A c \in {"CatA", "CatB", None, ""} :
         ResolvingRows(c) # {} => HasCat(ordered_downloads, c)

\* C18 witness: three rows, two of them resolving to one category and the
\* third naming an unknown target id, gave one entry with two files.
C18_Witness ==
  /\ ipc = "retraced"
  /\ Len(cl_out) = 3
  /\ Cardinality(ResolvingRows("CatA")) = 2
  /\ \E i \in 1..3 : cl_out[i][2] = 3 /\ HasKey(page_out, cl_out[i][1])
  /\ Len(ordered_downloads) = 1
  /\ ordered_downloads[1].n_files = 2
  /\ Len(ordered_downloads[1].files) = 2

NoDuplicates(fs) == \A i, j \in 1..Len(fs) : fs[i] = fs[j] => i = j
EntriesConsistent(d) ==
  \A k \in 1..Len(d) : d[k].n_files = Len(d[k].files) /\ NoDuplicates(d[k].files)

\* C19: every entry retrace returns, and every entry of the persisted index
\* after update_found_files, has n_files = len(files) and no filename twice.
C19_EntriesCountedAndDuplicateFree ==
  /\ ipc = "retraced" => EntriesConsistent(ordered_downloads)
  /\ merges >= 1 => EntriesConsistent(found_files.data)

\* C20: merging the builder output d into the persisted index a second time
\* leaves the index the first merge wrote: same categories in the same
\* order, same file lists, same counts.
C20_MergeIsIdempotent ==
  /\ [](ipc = "retraced" =>
          LET once == update_found_files(found_files, ordered_downloads)
          IN update_found_files(once, ordered_downloads) = once)
  /\ [][(merges >= 1 /\ merges' = merges + 1) => found_files' = found_files]_vars

\* C20 witness: the merge has run twice on an index whose entry of CatA
\* lacked a.jpg, and the entry now holds both files.
C20_Witness ==
  /\ merges = 2
  /\ \E k \in 1..Len(found_files.data) :
       /\ found_files.data[k].cat = "CatA"
       /\ found_files.data[k].files = <<"b.jpg", "a.jpg">>

\* The entry of category c in a dictionary of entries.
EntryOf(d, c) == d[CHOOSE k \in 1..Len(d) : d[k].cat = c]

\* C31: the id of every entry retrace returns is the linktarget id of the
\* entry's category (the id whose title in the linktarget output is the
\* category name), and update_found_files stores the id of a category new
\* to the index as retrace gave it.
C31_EntryIdIsLinktargetId ==
  /\ [](ipc = "retraced" =>
          \A k \in 1..Len(ordered_downloads) :
            LET e == ordered_downloads[k]
            IN HasKey(lt_out, e.id) /\ Lookup(lt_out, e.id) = e.cat)
  /\ [][(ipc = "retraced" /\ ipc' = "start") =>
          \A k \in 1..Len(ordered_downloads) :
            LET e == ordered_downloads[k]
            IN ~HasCat(Existing(found_files), e.cat) =>
                 /\ HasCat(found_files'.data, e.cat)
                 /\ EntryOf(found_files'.data, e.cat).id = e.id]_vars

\* ============================================================ main(), fetch
\* The command line, the construction of the ProgramContext and the three
\* scan phases of find_media_file_titles. A dump is a sequence of lines with
\* one row each; what a scan writes to the checkpoint file, and a scan that
\* resumes, are the matter of SpecScan.
DumpNames == {"linktarget", "categorylinks", "page"}
Paths == {"category_file", "dumps_dir"} \cup DumpNames
NoExit == 0 - 1

\* pctx.process_categories: the requested categories not yet in the index.
process_categories == {"CatA"}

MaxDumpLines == 2     \* lines of the linktarget and the categorylinks dump

\* linktarget rows <<id, title>> of namespace 14, categorylinks rows
\* <<from, target_id>> of type 'file' with no sortkey prefix, page rows
\* <<id, title>> of namespace 6 with a .jpg title.
LtDumps == SeqsUpTo({<<1, "CatA">>, <<2, "CatB">>}, MaxDumpLines)
ClDumps == SeqsUpTo({<<1, 1>>, <<2, 1>>, <<2, 2>>}, MaxDumpLines)
PageDumps == {<<<<1, "a.jpg">>, <<2, "b.jpg">>>>, <<<<2, "b.jpg">>>>}

\* The dumps a run can find at a path: none to read when the path does not
\* exist or the command reads no dump.
DumpsAt(d, contents, P, c) ==
  IF d \in P /\ c # "download" THEN contents ELSE {<<>>}

IdSet(out) == {out[i][1] : i \in 1..Len(out)}
TitleSet(out) == {out[i][2] : i \in 1..Len(out)}

\* cli.py line 99, args.command == ("fetch", "run"): a string compared with
\* a tuple, which is never equal.
DumpsDirChecked(c) == FALSE

\* context.py lines 85-92: the dumps are entered in the order linktarget,
\* categorylinks, page, and the loop returns at the first one missing.
RECURSIVE InitProgramFilesFrom(_, _, _)
InitProgramFilesFrom(order, i, acc) ==
  IF i > Len(order) THEN acc
  ELSE IF order[i] \notin present THEN acc
  ELSE InitProgramFilesFrom(order, i + 1, Append(acc, order[i]))

\* A plausible slip: the tuple of line 85 lists the page dump first.
init_program_files_page_first ==
  InitProgramFilesFrom(<<"page", "categorylinks", "linktarget">>, 1, <<>>)

init_program_files ==
  InitProgramFilesFrom(<<"linktarget", "categorylinks", "page">>, 1, <<>>)

\* main.py lines 25-33.
get_phase_max(dump_file, pset) ==
  CASE dump_file = "linktarget" -> Cardinality(process_categories)
    [] dump_file = "categorylinks" -> 0
    [] dump_file = "page" -> Cardinality(pset)

\* The handlers of scanner.py (lt_handler 124-131, cl_handler 155-158,
\* page_handler 183-186) on a row of the kinds above.
Accepts(dump_file, row, pset) ==
  CASE dump_file = "linktarget" -> row[2] \in process_categories
    [] dump_file = "categorylinks" -> row[2] \in pset
    [] dump_file = "page" -> row[1] \in pset

\* main.py lines 56-59: get_title_set after the page phase, get_id_set
\* after the other two.
NextProgramSet(dump_file, out) ==
  IF dump_file = "page" THEN TitleSet(out) ELSE IdSet(out)

Output(d) ==
  CASE d = "linktarget" -> lt_out
    [] d = "categorylinks" -> cl_out
    [] d = "page" -> page_out

InitMain ==
  /\ ckpt = FreshCheckpoint
  /\ call = NoCall
  /\ dump = <<>>
  /\ max_phase_matches = 0
  /\ outfile = <<>>
  /\ outbuf = <<>>
  /\ pc = "idle"
  /\ lc = 0
  /\ start = 0
  /\ end = 0
  /\ found_matches = 0
  /\ mi = 0
  /\ nread = 0
  /\ outfile0 = <<>>
  /\ stop = "none"
  /\ hist = [n |-> 0, between_lines |-> TRUE]
  /\ files = <<>>
  /\ server = <<>>
  /\ downloads_set = {}
  /\ failed_downloads_set = {}
  /\ downloaded_files = MissingFile
  /\ invalid_files = MissingFile
  /\ tracker_current = 0
  /\ log_queue = <<>>
  /\ dl_queue = <<>>
  /\ pending = <<>>
  /\ wpc = <<>>
  /\ wfile = <<>>
  /\ wtmp = <<>>
  /\ wlast = <<>>
  /\ attempts = <<>>
  /\ phase = "idle"
  /\ run = 0
  /\ cat_start = 0
  /\ cat = 0
  /\ base = <<1, 1>>
  /\ max = <<1, 1>>
  /\ factor = <<1, 1>>
  /\ delay = <<1, 1>>
  /\ sleeping = FALSE
  /\ pause = TRUE
  /\ rpc = <<>>
  /\ rhint = <<>>
  /\ rlast = "none"
  /\ lt_out = <<>>
  /\ page_out = <<>>
  /\ cl_out = <<>>
  /\ found_files = [exists |-> FALSE, data |-> <<>>]
  /\ ordered_downloads = <<>>
  /\ ipc = "idle"
  /\ merges = 0
  /\ command \in {"fetch", "download", "run"}
  /\ present \in {P \in SUBSET Paths :
                    P \cap DumpNames # {} => "dumps_dir" \in P}
  /\ dumps \in {[linktarget |-> l, categorylinks |-> c, page |-> p] :
                  l \in DumpsAt("linktarget", LtDumps, present, command),
                  c \in DumpsAt("categorylinks", ClDumps, present, command),
                  p \in DumpsAt("page", PageDumps, present, command)}
  /\ rsearch \in BOOLEAN
  /\ pfiles = <<>>
  /\ program_set = {}
  /\ mpc = "cli"
  /\ phase_k = 0
  /\ nlines = 0
  /\ exit_code = NoExit
  /\ worked = <<>>

\* cli.py lines 94-104: sys.exit(1) for a missing category file; the test
\* of the dump directory stands under the condition of line 99.
GetCliInput ==
  /\ mpc = "cli"
  /\ IF "category_file" \notin present
     THEN mpc' = "exited" /\ exit_code' = 1
     ELSE IF DumpsDirChecked(command) /\ "dumps_dir" \notin present
     THEN mpc' = "exited" /\ exit_code' = 1
     ELSE mpc' = "ctx" /\ UNCHANGED exit_code
  /\ UNCHANGED <<ckptVars, scanVars, dlVars, rlVars, ixVars, command, present,
                 dumps, rsearch, pfiles, program_set, phase_k, nlines, worked>>

\* The ProgramContext is built (main.py 227, 239, 248): __post_init__ calls
\* init_program_files (context.py 68), which prints the missing dump and
\* returns.
InitProgramFiles ==
  /\ mpc = "ctx"
  /\ pfiles' = init_program_files
  /\ mpc' = "dispatch"
  /\ UNCHANGED <<ckptVars, scanVars, dlVars, rlVars, ixVars, command, present,
                 dumps, rsearch, program_set, phase_k, nlines, exit_code,
                 worked>>

\* main.py lines 233-235 and 256-258 (process_categories is not empty), or
\* line 245 of the download command.
RunCommand ==
  /\ mpc = "dispatch"
  /\ IF command = "download"
     THEN mpc' = "download" /\ worked' = Append(worked, "download")
     ELSE mpc' = "loop" /\ UNCHANGED worked
  /\ UNCHANGED <<ckptVars, scanVars, dlVars, rlVars, ixVars, command, present,
                 dumps, rsearch, pfiles, program_set, phase_k, nlines,
                 exit_code>>

\* main.py lines 50-54: the next item of program_files (a dictionary, in
\* insertion order), its quota, and the call of scan_commons_db; after the
\* last item the loop ends.
BeginPhase ==
  /\ mpc = "loop"
  /\ IF phase_k < Len(pfiles)
     THEN /\ phase_k' = phase_k + 1
          /\ max_phase_matches' =
               IF rsearch THEN max_phase_matches
               ELSE get_phase_max(pfiles[phase_k + 1], program_set)
          /\ nlines' = 0
          /\ worked' = Append(worked, pfiles[phase_k + 1])
          /\ mpc' = "scanning"
     ELSE /\ mpc' = "retrace"
          /\ UNCHANGED <<phase_k, max_phase_matches, nlines, worked>>
  /\ UNCHANGED <<ckptVars, dump, outfile, outbuf, pc, lc, start, end,
                 found_matches, mi, nread, outfile0, stop, hist, dlVars, rlVars,
                 ixVars, command, present, dumps, rsearch, pfiles, program_set,
                 exit_code>>

\* scanner.py lines 57-75: one line of the dump; an accepted row is written
\* to the output file, and the scan returns when the quota is reached.
ScanLine ==
  /\ mpc = "scanning"
  /\ nlines < Len(dumps[pfiles[phase_k]])
  /\ LET d == pfiles[phase_k]
         row == dumps[d][nlines + 1]
         hit == Accepts(d, row, program_set)
         out == IF hit THEN Append(Output(d), row) ELSE Output(d)
     IN /\ nlines' = nlines + 1
        /\ lt_out' = IF d = "linktarget" THEN out ELSE lt_out
        /\ cl_out' = IF d = "categorylinks" THEN out ELSE cl_out
        /\ page_out' = IF d = "page" THEN out ELSE page_out
        /\ mpc' = IF hit /\ max_phase_matches # 0
                         /\ Len(out) >= max_phase_matches
                  THEN "scanned" ELSE "scanning"
  /\ UNCHANGED <<ckptVars, scanVars, dlVars, rlVars, found_files,
                 ordered_downloads, ipc, merges, command, present, dumps,
                 rsearch, pfiles, program_set, phase_k, exit_code, worked>>

\* scanner.py lines 57 and 80-81: the dump is at its end and the scan
\* returns.
ScanEnd ==
  /\ mpc = "scanning"
  /\ nlines = Len(dumps[pfiles[phase_k]])
  /\ mpc' = "scanned"
  /\ UNCHANGED <<ckptVars, scanVars, dlVars, rlVars, ixVars, command, present,
                 dumps, rsearch, pfiles, program_set, phase_k, nlines,
                 exit_code, worked>>

\* An exception in a scan (a read error, a checkpoint file that does not
\* parse) is caught neither in find_media_file_titles nor in main: the
\* process ends.
ScanRaises ==
  /\ mpc = "scanning"
  /\ mpc' = "exited"
  /\ exit_code' = 1
  /\ UNCHANGED <<ckptVars, scanVars, dlVars, rlVars, ixVars, command, present,
                 dumps, rsearch, pfiles, program_set, phase_k, nlines, worked>>

\* main.py lines 56-59, after scan_commons_db has returned.
SetProgramSet ==
  /\ mpc = "scanned"
  /\ program_set' = NextProgramSet(pfiles[phase_k], Output(pfiles[phase_k]))
  /\ mpc' = "loop"
  /\ UNCHANGED <<ckptVars, scanVars, dlVars, rlVars, ixVars, command, present,
                 dumps, rsearch, pfiles, phase_k, nlines, exit_code, worked>>

\* main.py line 236 (259): retrace reads pfiles[linktarget_dump],
\* pfiles[page_dump] and pfiles[category_dump] (lines 82, 88, 93), a KeyError
\* for a dump that init_program_files did not enter; then update_found_files,
\* and for the run command download_media_files (line 261).
RetraceAndUpdate ==
  /\ mpc = "retrace"
  /\ IF Len(pfiles) = 3
     THEN /\ ordered_downloads' = retrace(lt_out, page_out, cl_out)
          /\ found_files' = update_found_files(found_files, ordered_downloads')
          /\ merges' = merges + 1
          /\ IF command = "run"
             THEN /\ mpc' = "download"
                  /\ worked' = Append(worked, "download")
                  /\ UNCHANGED exit_code
             ELSE /\ mpc' = "exited"
                  /\ exit_code' = 0
                  /\ UNCHANGED worked
     ELSE /\ mpc' = "exited"
          /\ exit_code' = 1
          /\ UNCHANGED <<ordered_downloads, found_files, merges, worked>>
  /\ UNCHANGED <<ckptVars, scanVars, dlVars, rlVars, lt_out, page_out, cl_out,
                 ipc, command, present, dumps, rsearch, pfiles, program_set,
                 phase_k, nlines>>

NextMain ==
  \/ GetCliInput
  \/ InitProgramFiles
  \/ RunCommand
  \/ BeginPhase
  \/ ScanLine
  \/ ScanEnd
  \/ ScanRaises
  \/ SetProgramSet
  \/ RetraceAndUpdate

SpecMain == InitMain /\ [][NextMain]_vars

\* ------------------------------------------------- main(), fetch properties
\* The complete output of a phase on a fresh output file: the rows of the
\* dump its filter accepts, in the order of the dump, up to its quota.
Quota(d, pset) == IF rsearch THEN 0 ELSE get_phase_max(d, pset)
CompleteOutput(d, pset) ==
  LET m == SelectSeq(dumps[d], LAMBDA row : Accepts(d, row, pset))
      q == Quota(d, pset)
  IN IF q # 0 /\ Len(m) > q THEN SubSeq(m, 1, q) ELSE m
CompleteLt == CompleteOutput("linktarget", {})
CompleteCl == CompleteOutput("categorylinks", IdSet(CompleteLt))
ScansStarted == SelectSeq(worked, LAMBDA x : x # "download")
IsPrefix(a, b) == Len(a) <= Len(b) /\ a = SubSeq(b, 1, Len(a))

\* C21: the scans start in the order linktarget, categorylinks, page, each
\* at most once and one at a time, and when the categorylinks (page) scan
\* reads its first line, the linktarget (categorylinks) output is complete
\* and program_set is the set of the ids in it.
C21_PhasesInOrderOnCompleteOutput ==
  /\ [](IsPrefix(ScansStarted, <<"linktarget", "categorylinks", "page">>))
  /\ [][(mpc = "scanning" /\ nlines = 0 /\ nlines' = 1) =>
          /\ pfiles[phase_k] = "categorylinks" =>
               lt_out = CompleteLt /\ program_set = IdSet(CompleteLt)
          /\ pfiles[phase_k] = "page" =>
               cl_out = CompleteCl /\ program_set = IdSet(CompleteCl)]_vars

\* C21 witness: the page scan has read a line and accepted its row, with the
\* ids of a non-empty categorylinks output as its filter.
C21_Witness ==
  /\ mpc = "scanning"
  /\ pfiles[phase_k] = "page"
  /\ nlines >= 1
  /\ page_out # <<>>
  /\ program_set = IdSet(cl_out)
  /\ Len(lt_out) >= 1

\* A configuration error: the category file is missing, or for fetch and
\* run the dump directory or one of the three dumps is missing.
ConfigError ==
  \/ "category_file" \notin present
  \/ /\ command \in {"fetch", "run"}
     /\ ("dumps_dir" \notin present \/ ~(DumpNames \subseteq present))

\* C22: with a configuration error no scan and no download run is started,
\* and the process exits with a status other than 0.
C22_ConfigErrorIsFatalBeforeWork ==
  ConfigError => /\ worked = <<>>
                 /\ mpc = "exited" => exit_code # 0

====
